---- MODULE Spec2Model ----
(***************************************************************************)
(* cc-sessions: the SQLite-backed session store (src/src/store/sessions.ts) *)
(* and the retention manager (src/src/store/retention.ts).                  *)
(*                                                                         *)
(* Conventions.                                                            *)
(*  - An optional JS value (x?: T) and a nullable SQL column are a         *)
(*    sequence of length 0 (undefined / NULL) or 1 (the value).            *)
(*  - A text is a set of words; a word is a sequence of letters.  The      *)
(*    FTS5 tokenizer and LIKE only ever look at the words of a text.       *)
(*  - Times are milliseconds since the epoch, as Date.getTime() gives.     *)
(***************************************************************************)
EXTENDS Integers, Sequences, FiniteSets, TLC

VARIABLES
  rows,     \* table sessions: rowid -> row
  fts,      \* index of sessions_fts: rowid -> the words indexed under it
  now,      \* Date.now()
  last,     \* the last call: operation, arguments, return value
  archRun,  \* the last archiveOld call while no save followed it
  fs,       \* the files: size of the database file, archive directory, raw logs
  config,   \* the RetentionConfig and the path the store was opened on
  run,      \* the runCleanup call in progress
  stmt,     \* the save statement of each process, while it runs
  cloud,    \* the bucket, the sync call and the session-end hook in progress
  tracked   \* currentSessionMemoryId of each process of the periodic-save hook

vars == <<rows, fts, now, last, archRun, fs, config, run, stmt, cloud, tracked>>

----------------------------------------------------------------------------
(* Bounds of the model *)

MaxRowid == 3
MaxDay == 2
MaxLen == 3

----------------------------------------------------------------------------
(* Values *)

None == <<>>
Some(x) == <<x>>

DayMs == 24 * 60 * 60 * 1000

Ids == {"x", "y"}
NoId == "nonexistent"

\* The words of the vocabulary: "a", "ab", "b".  "a" is a prefix of "ab",
\* "b" is a substring of "ab" that is not a prefix of it.
W_a == <<"a">>
W_ab == <<"a", "b">>
W_b == <<"b">>
Words == {W_a, W_ab, W_b}

\* The only word of the text of an id.
IdWord(id) == <<id>>

IsPrefix(p, w) == Len(p) <= Len(w) /\ SubSeq(w, 1, Len(p)) = p
IsSubstr(p, w) == \E i \in 1..(Len(w) - Len(p) + 1) : SubSeq(w, i, i + Len(p) - 1) = p
IsSuffix(p, w) == Len(p) <= Len(w) /\ SubSeq(w, Len(w) - Len(p) + 1, Len(w)) = p

Range(f) == {f[i] : i \in DOMAIN f}
SetMax(S) == CHOOSE m \in S : \A n \in S : n <= m
SetMin(S) == CHOOSE m \in S : \A n \in S : m <= n

----------------------------------------------------------------------------
(* SessionMemory values (src/src/types.ts).  The fields that save copies   *)
(* to a column of their own and rowToSession copies back unchanged         *)
(* (projectName, endedAt, duration, the counters, filesDeleted, nextSteps, *)
(* keyDecisions, blockers) are left out.                                   *)

LogFileOf(id) == [x |-> "/logs/x.jsonl", y |-> "/logs/y.jsonl"][id]
ArchivePathOf(id) ==
  [x |-> "/archive/x.jsonl.gz", y |-> "/archive/y.jsonl.gz", nonexistent |-> "/archive/nonexistent.jsonl.gz"][id]

\* A Date is <<"Date", ms>>; its JSON form is the ISO string <<"iso", ms>>.
DateOf(ms) == <<"Date", ms>>
toISOString(d) == <<"iso", d[2]>>

BaseSession(id) ==
  [ id |-> id, claudeSessionId |-> "claude-1", projectPath |-> "/p",
    startedAt |-> DayMs,
    summary |-> {W_ab}, description |-> {}, tasks |-> <<>>,
    filesCreated |-> <<>>, filesModified |-> <<>>,
    lastUserMessage |-> {}, lastAssistantMessage |-> {}, tags |-> <<>>,
    archived |-> FALSE, archivedAt |-> None,
    synced |-> None, syncedAt |-> None,
    logFile |-> LogFileOf(id), logFileArchived |-> None ]

\* Lifecycle parts of the sessions a caller saves: a fresh session as the
\* hooks build it, one archived and synced on another device, and the
\* values JavaScript treats as falsy (the epoch, the empty string).
Lifecycles ==
  { [archived |-> FALSE, archivedAt |-> None, synced |-> None, syncedAt |-> None, logFileArchived |-> None],
    [archived |-> TRUE, archivedAt |-> Some(DayMs), synced |-> Some(TRUE), syncedAt |-> Some(DayMs), logFileArchived |-> Some("/archive/old.gz")],
    [archived |-> TRUE, archivedAt |-> Some(0), synced |-> Some(FALSE), syncedAt |-> Some(0), logFileArchived |-> Some("")] }

Starts == {0, DayMs}

WithLifecycle(s, lc) ==
  [s EXCEPT !.archived = lc.archived, !.archivedAt = lc.archivedAt,
            !.synced = lc.synced, !.syncedAt = lc.syncedAt,
            !.logFileArchived = lc.logFileArchived]

Fresh == CHOOSE lc \in Lifecycles : ~lc.archived
Archived == CHOOSE lc \in Lifecycles : lc.archived /\ lc.archivedAt = Some(DayMs)

\* The sessions saved in the store specification: x old or new and active,
\* y old and archived on another device or new and active.
StoreInputs ==
  { [WithLifecycle(BaseSession("x"), Fresh) EXCEPT !.startedAt = 0],
    WithLifecycle(BaseSession("x"), Fresh),
    [WithLifecycle(BaseSession("y"), Archived) EXCEPT !.startedAt = 0],
    WithLifecycle(BaseSession("y"), Fresh) }

\* The sessions saved in the round-trip specification.
RoundTripInputs ==
  { [WithLifecycle(BaseSession(id), lc) EXCEPT !.tasks = tk]
      : id \in Ids, lc \in Lifecycles,
        tk \in {<<>>, <<[description |-> {W_b}, createdAt |-> DateOf(DayMs)]>>} }

\* Text parts: a word in the summary, in the tags only, in the last
\* assistant message only, and a summary that holds "b" only inside "ab".
Text_ab == [summary |-> {W_ab}, lastAssistantMessage |-> {}, tags |-> <<>>]
Text_a_tag_b == [summary |-> {W_a}, lastAssistantMessage |-> {}, tags |-> <<W_b>>]
Text_assistant_b == [summary |-> {}, lastAssistantMessage |-> {W_b}, tags |-> <<>>]
Text_b_tag_a == [summary |-> {W_b}, lastAssistantMessage |-> {}, tags |-> <<W_a>>]

WithText(s, tx) ==
  [s EXCEPT !.summary = tx.summary,
            !.lastAssistantMessage = tx.lastAssistantMessage, !.tags = tx.tags]

\* The sessions saved in the search specification.
TextInputs ==
  { WithText(BaseSession("x"), Text_ab), WithText(BaseSession("x"), Text_a_tag_b),
    WithText(BaseSession("y"), Text_assistant_b), WithText(BaseSession("y"), Text_b_tag_a) }

Queries == Words \cup {IdWord(id) : id \in Ids}

\* The character U+0000 and the double quote.
Nul == "NUL"
Quote == "quote"

\* Queries with a character that matters to the query syntax: U+0000
\* alone, after "a", between "b" and "a", and a quote after "a".
SearchArgs ==
  Queries \cup {<<Nul>>, <<"a", Nul>>, <<"b", Nul, "a">>, <<"a", Quote>>}

\* A retention string is the sequence of its characters.
Forever == <<"f", "o", "r", "e", "v", "e", "r">>

Gb == 1000000000

\* The default configuration: retention, and the store opened on DB_PATH.
DEFAULT_CONFIG ==
  [ fullSessions |-> <<"1", "y">>, archives |-> Forever, maxStorageGb |-> 10,
    dbPath |-> "default" ]

----------------------------------------------------------------------------
(* Conversions between SessionMemory and a row of table sessions *)

\* JSON.stringify of an array of strings, and of the Task array: a Date
\* becomes its ISO string.
JsonStringify(list) == [json |-> list]
JsonStringifyTasks(tasks) ==
  [json |-> [i \in DOMAIN tasks |-> [tasks[i] EXCEPT !.createdAt = toISOString(@)]]]

\* parseJson: the parsed array.
parseJson(col) == col.json

\* session.archivedAt?.getTime() || null
TimeOrNull(optDate) == IF optDate = None \/ optDate[1] = 0 THEN None ELSE optDate
\* session.logFileArchived || null
StringOrNull(optStr) == IF optStr = None \/ optStr[1] = "" THEN None ELSE optStr
\* session.synced ? 1 : 0
Flag(optBool) == IF optBool # None /\ optBool[1] THEN 1 ELSE 0

\* BindRow with the archive path left unbound.
BindRow_NoArchivePath(s, t) ==
  [ id |-> s.id, claude_session_id |-> s.claudeSessionId,
    project_path |-> s.projectPath, started_at |-> s.startedAt,
    summary |-> s.summary, description |-> s.description,
    tasks_json |-> JsonStringifyTasks(s.tasks),
    files_created_json |-> JsonStringify(s.filesCreated),
    files_modified_json |-> JsonStringify(s.filesModified),
    last_user_message |-> s.lastUserMessage,
    last_assistant_message |-> s.lastAssistantMessage,
    tags_json |-> JsonStringify(s.tags),
    archived |-> Flag(Some(s.archived)), archived_at |-> TimeOrNull(s.archivedAt),
    synced |-> Flag(s.synced), synced_at |-> TimeOrNull(s.syncedAt),
    log_file |-> s.logFile, log_file_archived |-> None,
    updated_at |-> t ]

\* The values save binds to the columns, at clock reading t.
BindRow(s, t) ==
  [ id |-> s.id, claude_session_id |-> s.claudeSessionId,
    project_path |-> s.projectPath, started_at |-> s.startedAt,
    summary |-> s.summary, description |-> s.description,
    tasks_json |-> JsonStringifyTasks(s.tasks),
    files_created_json |-> JsonStringify(s.filesCreated),
    files_modified_json |-> JsonStringify(s.filesModified),
    last_user_message |-> s.lastUserMessage,
    last_assistant_message |-> s.lastAssistantMessage,
    tags_json |-> JsonStringify(s.tags),
    archived |-> Flag(Some(s.archived)), archived_at |-> TimeOrNull(s.archivedAt),
    synced |-> Flag(s.synced), synced_at |-> TimeOrNull(s.syncedAt),
    log_file |-> s.logFile, log_file_archived |-> StringOrNull(s.logFileArchived),
    updated_at |-> t ]

\* row.archived_at ? new Date(Number(row.archived_at)) : undefined
DateOrUndefined(col) == IF col = None \/ col[1] = 0 THEN None ELSE col
\* row.log_file_archived ? String(row.log_file_archived) : undefined
StringOrUndefined(col) == IF col = None \/ col[1] = "" THEN None ELSE col

rowToSession(row) ==
  [ id |-> row.id, claudeSessionId |-> row.claude_session_id,
    projectPath |-> row.project_path, startedAt |-> row.started_at,
    summary |-> row.summary, description |-> row.description,
    tasks |-> parseJson(row.tasks_json),
    filesCreated |-> parseJson(row.files_created_json),
    filesModified |-> parseJson(row.files_modified_json),
    lastUserMessage |-> row.last_user_message,
    lastAssistantMessage |-> row.last_assistant_message,
    tags |-> parseJson(row.tags_json),
    archived |-> (row.archived = 1),
    archivedAt |-> DateOrUndefined(row.archived_at),
    synced |-> Some(row.synced = 1),
    syncedAt |-> DateOrUndefined(row.synced_at),
    logFile |-> row.log_file,
    logFileArchived |-> StringOrUndefined(row.log_file_archived) ]

----------------------------------------------------------------------------
(* The full-text index sessions_fts and its triggers *)

WordsOfTasks(tasksJson) == UNION {tasksJson.json[i].description : i \in DOMAIN tasksJson.json}

\* The words the triggers hand to sessions_fts for a row: columns id,
\* summary, description, tasks_text, files_text, last_user_message,
\* last_assistant_message, tags_text.
FtsTokens(row) ==
  {IdWord(row.id)} \cup row.summary \cup row.description
    \cup WordsOfTasks(row.tasks_json)
    \cup Range(row.files_created_json.json) \cup Range(row.files_modified_json.json)
    \cup row.last_user_message \cup row.last_assistant_message
    \cup Range(row.tags_json.json)

\* sessions_ai: INSERT INTO sessions_fts(rowid, ...) for every inserted row.
FtsInsert(index, inserted, table) ==
  [r \in DOMAIN index |->
     IF r \in inserted THEN index[r] \cup FtsTokens(table[r]) ELSE index[r]]

\* sessions_ad: INSERT INTO sessions_fts(sessions_fts, rowid, ...) VALUES('delete', ...)
\* for every deleted row, with the values the row had.
FtsDelete(index, deleted, table) ==
  [r \in DOMAIN index |->
     IF r \in deleted THEN index[r] \ FtsTokens(table[r]) ELSE index[r]]

\* sessions_au: the 'delete' of the old values, then the insert of the new.
FtsUpdate(index, updated, old, new) == FtsInsert(FtsDelete(index, updated, old), updated, new)

RowidsOf(id) == {r \in DOMAIN rows : rows[r].id = id}

----------------------------------------------------------------------------
(* Reads *)

NotFound == [null |-> TRUE]

getById(id) ==
  IF RowidsOf(id) = {} THEN NotFound
  ELSE rowToSession(rows[CHOOSE r \in RowidsOf(id) : TRUE])

\* ORDER BY started_at DESC: the rowids of S, newest first; rows with equal
\* started_at come in rowid order, as the scan of idx_sessions_started
\* yields them.
RECURSIVE OrderByStartedDesc(_)
OrderByStartedDesc(S) ==
  IF S = {} THEN <<>>
  ELSE LET first == CHOOSE r \in S : \A q \in S :
                      \/ rows[r].started_at > rows[q].started_at
                      \/ rows[r].started_at = rows[q].started_at /\ r <= q
       IN <<first>> \o OrderByStartedDesc(S \ {first})

\* LIMIT n: a negative n is no limit.
Limit(seq, n) == IF n < 0 THEN seq ELSE SubSeq(seq, 1, IF Len(seq) < n THEN Len(seq) ELSE n)

getAll(includeArchived) ==
  LET S == {r \in DOMAIN rows : includeArchived \/ rows[r].archived = 0}
      order == OrderByStartedDesc(S)
  IN [i \in DOMAIN order |-> rowToSession(rows[order[i]])]

\* getRecent without the condition archived = 0.
getRecent_WithArchived(limit, projectPath) ==
  LET S == {r \in DOMAIN rows :
              projectPath # None /\ projectPath[1] # "" => rows[r].project_path = projectPath[1]}
      order == Limit(OrderByStartedDesc(S), limit)
  IN [i \in DOMAIN order |-> rowToSession(rows[order[i]])]

\* SELECT * FROM sessions WHERE archived = 0 [AND project_path = ?]
\* ORDER BY started_at DESC LIMIT ?.  projectPath is None when the argument
\* is left out; if (projectPath) is false for it and for the empty string.
getRecent(limit, projectPath) ==
  LET S == {r \in DOMAIN rows :
              /\ rows[r].archived = 0
              /\ projectPath # None /\ projectPath[1] # "" => rows[r].project_path = projectPath[1]}
      order == Limit(OrderByStartedDesc(S), limit)
  IN [i \in DOMAIN order |-> rowToSession(rows[order[i]])]

\* getLastForProject without the archived rows.
getLastForProject_ActiveOnly(projectPath) ==
  LET order == OrderByStartedDesc({r \in DOMAIN rows :
                 rows[r].project_path = projectPath /\ rows[r].archived = 0})
  IN IF order = <<>> THEN NotFound ELSE rowToSession(rows[order[1]])

\* SELECT * FROM sessions WHERE project_path = ? ORDER BY started_at DESC
\* LIMIT 1; rows with equal started_at leave the sorter in rowid order.
getLastForProject(projectPath) ==
  LET order == OrderByStartedDesc({r \in DOMAIN rows : rows[r].project_path = projectPath})
  IN IF order = <<>> THEN NotFound ELSE rowToSession(rows[order[1]])

\* getStats with the dates of the active rows only.
getStats_DatesOfActive ==
  LET started == {rows[r].started_at : r \in {q \in DOMAIN rows : rows[q].archived = 0}}
  IN [ totalSessions |-> Cardinality(DOMAIN rows),
       activeSessions |-> Cardinality({r \in DOMAIN rows : rows[r].archived = 0}),
       archivedSessions |-> Cardinality({r \in DOMAIN rows : rows[r].archived = 1}),
       storageUsedBytes |-> IF config.dbPath = "default" THEN fs.dbSize ELSE 0,
       oldestSession |-> IF started = {} \/ SetMin(started) = 0 THEN None ELSE Some(SetMin(started)),
       newestSession |-> IF started = {} \/ SetMax(started) = 0 THEN None ELSE Some(SetMax(started)) ]

\* getStats: the counts, and the size of the file at DB_PATH.  A store
\* opened on another path leaves no file at DB_PATH.
\* MIN(started_at) and MAX(started_at) are NULL for an empty table;
\* row.oldest ? new Date(Number(row.oldest)) : undefined is undefined for
\* NULL and for 0, the epoch.
getStats ==
  LET started == {rows[r].started_at : r \in DOMAIN rows}
  IN [ totalSessions |-> Cardinality(DOMAIN rows),
       activeSessions |-> Cardinality({r \in DOMAIN rows : rows[r].archived = 0}),
       archivedSessions |-> Cardinality({r \in DOMAIN rows : rows[r].archived = 1}),
       storageUsedBytes |-> IF config.dbPath = "default" THEN fs.dbSize ELSE 0,
       oldestSession |-> IF started = {} \/ SetMin(started) = 0 THEN None ELSE Some(SetMin(started)),
       newestSession |-> IF started = {} \/ SetMax(started) = 0 THEN None ELSE Some(SetMax(started)) ]

\* ORDER BY archived_at DESC: NULL comes last, equal values in rowid order.
ArchivedAtKey(r) == IF rows[r].archived_at = None THEN -1 ELSE rows[r].archived_at[1]

RECURSIVE OrderByArchivedDesc(_)
OrderByArchivedDesc(S) ==
  IF S = {} THEN <<>>
  ELSE LET first == CHOOSE r \in S : \A q \in S :
                      \/ ArchivedAtKey(r) > ArchivedAtKey(q)
                      \/ ArchivedAtKey(r) = ArchivedAtKey(q) /\ r <= q
       IN <<first>> \o OrderByArchivedDesc(S \ {first})

getArchived ==
  LET order == OrderByArchivedDesc({r \in DOMAIN rows : rows[r].archived = 1})
  IN [i \in DOMAIN order |-> rowToSession(rows[order[i]])]

\* query.replace(/['"]/g, ''): the query without its quotes.
NotQuote(c) == c # Quote
escapedQuery(q) == SelectSeq(q, NotQuote)

\* A text as a C string: its characters before the first U+0000.
RECURSIVE CString(_)
CString(w) ==
  IF w = <<>> \/ Head(w) = Nul THEN <<>> ELSE <<Head(w)>> \o CString(Tail(w))

\* FTS5 parses the expression '"q"*' unless the string ends before its
\* closing quote.
FtsParses(q) == Nul \notin Range(q)

\* summary LIKE '%q%' OR description LIKE '%q%' OR last_user_message LIKE '%q%'
\* SQLite reads the pattern as a C string, which ends at the first U+0000:
\* of '%q%' with such a character in q only the leading '%' and the
\* characters of q before it are left, a pattern for the texts that end
\* with these characters.  The columns are never NULL.
Like(row, q) ==
  IF Nul \in Range(q)
  THEN \/ CString(q) = <<>>
       \/ \E w \in row.summary \cup row.description \cup row.last_user_message :
            IsSuffix(CString(q), w)
  ELSE \E w \in row.summary \cup row.description \cup row.last_user_message :
         IsSubstr(q, w)

simplSearch(q, limit) ==
  LET order == Limit(OrderByStartedDesc({r \in DOMAIN rows : Like(rows[r], q)}), limit)
  IN [i \in DOMAIN order |-> [session |-> rowToSession(rows[order[i]]), score |-> 1]]

\* sessions_fts MATCH '"q"*': the rowids with an index entry that has a
\* word starting with q.
FtsMatch(q) == {r \in DOMAIN fts : \E w \in fts[r] : IsPrefix(q, w)}

\* search: with no match the statement returns no row.  With a match FTS5
\* reads the matched row from the content table (content='sessions') by the
\* column names of sessions_fts; sessions has no column tasks_text,
\* files_text or tags_text, so stmt.all throws and the catch block answers
\* with simplSearch.
\* A query with U+0000 makes the MATCH expression '"q' for FTS5, a string
\* that is not closed: stmt.all throws ("unterminated string") and the catch
\* block answers with simplSearch of the query as it was given.
search(q, limit) ==
  IF ~FtsParses(escapedQuery(q)) THEN simplSearch(q, limit)
  ELSE IF FtsMatch(escapedQuery(q)) = {} THEN <<>>
  ELSE simplSearch(q, limit)

DefaultLimit == 20

SearchIds(q) == {search(q, DefaultLimit)[i].session.id : i \in DOMAIN search(q, DefaultLimit)}

\* The characters of a project path.
PathChars(path) ==
  CASE path = "" -> <<>>
    [] path = "/" -> <<"/">>
    [] path = "/p" -> <<"/", "p">>
    [] path = "/p/sub" -> <<"/", "p", "/", "s", "u", "b">>

\* results.sort((a, b) => b.score - a.score): a stable sort.
RECURSIVE SortByScoreDesc(_)
SortByScoreDesc(results) ==
  IF results = <<>> THEN <<>>
  ELSE LET i == CHOOSE i \in DOMAIN results : \A j \in DOMAIN results :
                  \/ results[i].score > results[j].score
                  \/ results[i].score = results[j].score /\ i <= j
       IN <<results[i]>>
            \o SortByScoreDesc(SubSeq(results, 1, i - 1) \o SubSeq(results, i + 1, Len(results)))

\* The filter of SearchIndex.search without the test of session.archived.
IndexKeeps_Archived(options, result) ==
  /\ ~( /\ options.projectPath # None /\ options.projectPath[1] # ""
        /\ ~IsSubstr(PathChars(options.projectPath[1]), PathChars(result.session.projectPath)) )
  /\ ~(options.fromDate # None /\ result.session.startedAt < options.fromDate[1])
  /\ ~(options.toDate # None /\ result.session.startedAt > options.toDate[1])

\* The filter of SearchIndex.search: project, date range, archived.  An
\* option left out is None; a Date is never falsy.
IndexKeeps(options, result) ==
  /\ ~( /\ options.projectPath # None /\ options.projectPath[1] # ""
        /\ ~IsSubstr(PathChars(options.projectPath[1]), PathChars(result.session.projectPath)) )
  /\ ~(options.fromDate # None /\ result.session.startedAt < options.fromDate[1])
  /\ ~(options.toDate # None /\ result.session.startedAt > options.toDate[1])
  /\ ~(~options.includeArchived /\ result.session.archived)

\* results.filter(...): the results the filter keeps, in their order.
RECURSIVE IndexFilter(_, _)
IndexFilter(options, results) ==
  IF results = <<>> THEN <<>>
  ELSE (IF IndexKeeps(options, Head(results)) THEN <<Head(results)>> ELSE <<>>)
         \o IndexFilter(options, Tail(results))

\* SearchIndex.search: store.search(query, limit * 2), the filter, the sort
\* by score, slice(0, limit); limit = 20 when it is left out.
IndexSearch(options) ==
  LET limit == IF options.limit = None THEN DefaultLimit ELSE options.limit[1]
      sorted == SortByScoreDesc(IndexFilter(options, search(options.query, limit * 2)))
  IN SubSeq(sorted, 1, IF Len(sorted) < limit THEN Len(sorted) ELSE limit)

----------------------------------------------------------------------------
(* Writes *)

\* No runCleanup call is in progress.  Of a call in progress the record
\* keeps, besides its local variables, whether it started right after
\* another call returned and what the table and the archive directory held
\* when it started.
IdleRun ==
  [ pc |-> "idle",
    report |-> [sessionsArchived |-> 0, sessionsDeleted |-> 0, bytesFreed |-> 0, logFilesBackedUp |-> 0],
    queue |-> <<>>,
    result |-> [deleted |-> 0, bytesFreed |-> 0],
    currentSize |-> 0,
    beforeCount |-> 0,
    again |-> FALSE,
    before |-> [rows |-> <<>>, archive |-> {}] ]

\* The processes that hold the database open.
Procs == {"p1", "p2"}

\* No statement of the process is running.
IdleTx == [pc |-> "idle", s |-> None, t |-> 0, rowid |-> 0, rows |-> <<>>, fts |-> <<>>]

\* The devices that share the bucket; this.deviceId is "here".
Devices == {"here", "there"}
deviceId == "here"

\* getSessionKey: sessions/{deviceId}/{sessionId}.enc
getSessionKey(device, id) == <<"sessions", device, id>>

Keys == {getSessionKey(d, id) : d \in Devices, id \in Ids}

\* const report: SyncReport = { uploaded: 0, downloaded: 0, conflicts: 0 }
NewReport == [uploaded |-> 0, downloaded |-> 0, conflicts |-> 0]

IdleSync == [pc |-> "idle", queue |-> <<>>, remote |-> <<>>, report |-> NewReport]

\* An empty bucket, no sync running, no session-end hook running.
IdleCloud == [bucket |-> [k \in Keys |-> None], sync |-> IdleSync, hook |-> None]

\* A new database: the schema and no row.  Claude has written the logs.
InitStore ==
  /\ rows = <<>>
  /\ fts = [r \in 1..MaxRowid |-> {}]
  /\ now = DayMs
  /\ last = [op |-> "init", id |-> NoId, days |-> 0, ret |-> None, s |-> None]
  /\ archRun = None
  /\ fs = [dbSize |-> 0, archive |-> {}, logs |-> {LogFileOf(id) : id \in Ids}]
  /\ run = IdleRun
  /\ stmt = [p \in Procs |-> IdleTx]
  /\ cloud = IdleCloud
  /\ tracked = [p \in Procs |-> None]

Init == InitStore /\ config = DEFAULT_CONFIG

\* The clock advances between calls.
Tick ==
  /\ run.pc = "idle"
  /\ now < MaxDay * DayMs
  /\ now' = now + DayMs
  /\ last' = [op |-> "tick", id |-> NoId, days |-> 0, ret |-> None, s |-> None]
  /\ UNCHANGED <<rows, fts, archRun, fs, config, run, stmt, cloud, tracked>>

\* The rowid SQLite gives an inserted row: one more than the largest in use.
NewRowid == IF DOMAIN rows = {} THEN 1 ELSE SetMax(DOMAIN rows) + 1

\* The table after INSERT OR REPLACE of s at clock reading t: the row that
\* holds the id is gone, the new row sits under the new rowid.
ReplacedTable(s, t) ==
  [r \in (DOMAIN rows \ RowidsOf(s.id)) \cup {NewRowid} |->
     IF r = NewRowid THEN BindRow(s, t) ELSE rows[r]]

\* Save as a plain INSERT that leaves the row holding the id in place.
Save_KeepsOldRow(s) ==
  /\ run.pc = "idle"
  /\ NewRowid <= MaxRowid
  /\ LET table == [r \in DOMAIN rows \cup {NewRowid} |->
                     IF r = NewRowid THEN BindRow(s, now) ELSE rows[r]]
     IN /\ rows' = table
        /\ fts' = FtsInsert(fts, {NewRowid}, table)
  /\ last' = [op |-> "save", id |-> s.id, days |-> 0, ret |-> None, s |-> Some(s)]
  /\ archRun' = None
  /\ UNCHANGED <<now, fs, config, run, stmt, cloud, tracked>>

\* INSERT OR REPLACE: the row that holds the id is removed (no delete
\* trigger fires for it: recursive_triggers is off), the new row is inserted
\* under a new rowid and sessions_ai adds its index entry.
Save(s) ==
  /\ run.pc = "idle"
  /\ NewRowid <= MaxRowid
  /\ rows' = ReplacedTable(s, now)
  /\ fts' = FtsInsert(fts, {NewRowid}, ReplacedTable(s, now))
  /\ last' = [op |-> "save", id |-> s.id, days |-> 0, ret |-> None, s |-> Some(s)]
  /\ archRun' = None
  /\ UNCHANGED <<now, fs, config, run, stmt, cloud, tracked>>

\* Delete returning result.changes >= 0.
Delete_ReturnsTrue(id) ==
  /\ run.pc = "idle"
  /\ rows' = [r \in DOMAIN rows \ RowidsOf(id) |-> rows[r]]
  /\ fts' = FtsDelete(fts, RowidsOf(id), rows)
  /\ last' = [op |-> "delete", id |-> id, days |-> 0,
              ret |-> Some(Cardinality(RowidsOf(id)) >= 0), s |-> None]
  /\ UNCHANGED <<now, archRun, fs, config, run, stmt, cloud, tracked>>

\* DELETE FROM sessions WHERE id = ?; returns result.changes > 0.
Delete(id) ==
  /\ run.pc = "idle"
  /\ rows' = [r \in DOMAIN rows \ RowidsOf(id) |-> rows[r]]
  /\ fts' = FtsDelete(fts, RowidsOf(id), rows)
  /\ last' = [op |-> "delete", id |-> id, days |-> 0,
              ret |-> Some(Cardinality(RowidsOf(id)) > 0), s |-> None]
  /\ UNCHANGED <<now, archRun, fs, config, run, stmt, cloud, tracked>>

\* Date.now() - olderThanDays * 24 * 60 * 60 * 1000
Cutoff(olderThanDays) == now - olderThanDays * DayMs

\* archiveOld without the condition archived = 0.
ArchiveHit_AllRows(olderThanDays) ==
  {r \in DOMAIN rows : rows[r].started_at < Cutoff(olderThanDays)}

\* archiveOld with started_at <= cutoff.
ArchiveHit_Inclusive(olderThanDays) ==
  {r \in DOMAIN rows :
     rows[r].started_at <= Cutoff(olderThanDays) /\ rows[r].archived = 0}

\* WHERE started_at < ? AND archived = 0, the cutoff bound to ?
ArchiveHit(olderThanDays) ==
  {r \in DOMAIN rows :
     rows[r].started_at < Cutoff(olderThanDays) /\ rows[r].archived = 0}

\* UPDATE sessions SET archived = 1, archived_at = ? on the rows hit.  The
\* two readings of Date.now() in archiveOld are one reading.
ArchivedTable(olderThanDays) ==
  [r \in DOMAIN rows |->
     IF r \in ArchiveHit(olderThanDays)
     THEN [rows[r] EXCEPT !.archived = 1, !.archived_at = Some(now)]
     ELSE rows[r]]

\* archiveOld: returns result.changes.
ArchiveOld(olderThanDays) ==
  /\ run.pc = "idle"
  /\ rows' = ArchivedTable(olderThanDays)
  /\ fts' = FtsUpdate(fts, ArchiveHit(olderThanDays), rows, ArchivedTable(olderThanDays))
  /\ last' = [op |-> "archiveOld", id |-> NoId, days |-> olderThanDays,
              ret |-> Some(Cardinality(ArchiveHit(olderThanDays))), s |-> None]
  /\ archRun' = Some([days |-> olderThanDays, cutoff |-> Cutoff(olderThanDays),
                      repeat |-> archRun # None
                                   /\ archRun[1].days = olderThanDays
                                   /\ archRun[1].cutoff = Cutoff(olderThanDays)])
  /\ UNCHANGED <<now, fs, config, run, stmt, cloud, tracked>>

\* deleteOld restricted to archived rows.
DeleteOldHit_OnlyArchived(olderThanDays) ==
  {r \in DOMAIN rows :
     rows[r].started_at < Cutoff(olderThanDays) /\ rows[r].archived = 1}

\* DELETE FROM sessions WHERE started_at < ?
DeleteOldHit(olderThanDays) ==
  {r \in DOMAIN rows : rows[r].started_at < Cutoff(olderThanDays)}

\* deleteOld: returns result.changes.
DeleteOld(olderThanDays) ==
  /\ run.pc = "idle"
  /\ rows' = [r \in DOMAIN rows \ DeleteOldHit(olderThanDays) |-> rows[r]]
  /\ fts' = FtsDelete(fts, DeleteOldHit(olderThanDays), rows)
  /\ last' = [op |-> "deleteOld", id |-> NoId, days |-> olderThanDays,
              ret |-> Some(Cardinality(DeleteOldHit(olderThanDays))), s |-> None]
  /\ UNCHANGED <<now, archRun, fs, config, run, stmt, cloud, tracked>>

\* ArchivePathTable writing the row back as an active one.
ArchivePathTable_ClearsArchived(id, archivePath) ==
  [r \in DOMAIN rows |->
     IF r \in RowidsOf(id)
     THEN [rows[r] EXCEPT !.log_file_archived = Some(archivePath), !.updated_at = now,
                          !.archived = 0]
     ELSE rows[r]]

\* UPDATE sessions SET log_file_archived = ?, updated_at = ? WHERE id = ?
ArchivePathTable(id, archivePath) ==
  [r \in DOMAIN rows |->
     IF r \in RowidsOf(id)
     THEN [rows[r] EXCEPT !.log_file_archived = Some(archivePath), !.updated_at = now]
     ELSE rows[r]]

UpdateArchivePath(id, archivePath) ==
  /\ run.pc = "idle"
  /\ rows' = ArchivePathTable(id, archivePath)
  /\ fts' = FtsUpdate(fts, RowidsOf(id), rows, ArchivePathTable(id, archivePath))
  /\ last' = [op |-> "updateArchivePath", id |-> id, days |-> 0, ret |-> None, s |-> None]
  /\ UNCHANGED <<now, archRun, fs, config, run, stmt, cloud, tracked>>

\* markSynced as an upsert: a row is made for an id that has none.
SyncedTable_Upsert(id) ==
  [r \in DOMAIN rows \cup (IF RowidsOf(id) = {} THEN {NewRowid} ELSE {}) |->
     IF r \in RowidsOf(id)
     THEN [rows[r] EXCEPT !.synced = 1, !.synced_at = Some(now), !.updated_at = now]
     ELSE IF r \in DOMAIN rows THEN rows[r]
     ELSE [BindRow(BaseSession(id), now) EXCEPT !.synced = 1, !.synced_at = Some(now)]]

\* UPDATE sessions SET synced = 1, synced_at = ?, updated_at = ? WHERE id = ?
SyncedTable(id) ==
  [r \in DOMAIN rows |->
     IF r \in RowidsOf(id)
     THEN [rows[r] EXCEPT !.synced = 1, !.synced_at = Some(now), !.updated_at = now]
     ELSE rows[r]]

MarkSynced(id) ==
  /\ run.pc = "idle"
  /\ rows' = SyncedTable(id)
  /\ fts' = FtsUpdate(fts, RowidsOf(id), rows, SyncedTable(id))
  /\ last' = [op |-> "markSynced", id |-> id, days |-> 0, ret |-> None, s |-> None]
  /\ UNCHANGED <<now, archRun, fs, config, run, stmt, cloud, tracked>>

DayArgs == {0, 1}

AnyId == Ids \cup {NoId}

\* The store under saves, deletes and the age-based operations.
Next ==
  \/ Tick
  \/ \E s \in StoreInputs : Save(s)
  \/ \E id \in AnyId : Delete(id)
  \/ \E d \in DayArgs : ArchiveOld(d)
  \/ \E d \in DayArgs : DeleteOld(d)

Spec == Init /\ [][Next]_vars

\* The store and its index under saves of sessions with different texts.
NextSearch ==
  \/ \E s \in TextInputs : Save(s)
  \/ \E id \in AnyId : Delete(id)

SpecSearch == Init /\ [][NextSearch]_vars

\* A session flagged archived with no archivedAt: SessionMemory makes
\* archivedAt optional whatever archived is.
ArchivedNoDate ==
  [archived |-> TRUE, archivedAt |-> None, synced |-> None, syncedAt |-> None, logFileArchived |-> None]

\* The sessions saved in the specification of all writes.
WriteInputs ==
  { [WithLifecycle(BaseSession("x"), Fresh) EXCEPT !.startedAt = 0],
    WithText(WithLifecycle(BaseSession("x"), Fresh), Text_a_tag_b),
    WithLifecycle(BaseSession("y"), ArchivedNoDate) }

\* The store under every write of SessionStore.
NextWrites ==
  \/ \E s \in WriteInputs : Save(s)
  \/ \E id \in Ids : Delete(id)
  \/ ArchiveOld(0)
  \/ DeleteOld(0)
  \/ \E id \in Ids : MarkSynced(id)
  \/ \E id \in Ids : UpdateArchivePath(id, ArchivePathOf(id))

SpecWrites == Init /\ [][NextWrites]_vars

\* The updates by id, on ids that are stored and on ids that are not.
NextUpdates ==
  \/ \E s \in {WithLifecycle(BaseSession(id), Fresh) : id \in Ids} : Save(s)
  \/ \E id \in Ids : Delete(id)
  \/ \E id \in AnyId : MarkSynced(id)
  \/ \E id \in AnyId : UpdateArchivePath(id, ArchivePathOf(id))

SpecUpdates == Init /\ [][NextUpdates]_vars

\* Saves of sessions with every lifecycle part.
NextRoundTrip ==
  \/ \E s \in RoundTripInputs : Save(s)
  \/ \E id \in AnyId : Delete(id)

SpecRoundTrip == Init /\ [][NextRoundTrip]_vars

----------------------------------------------------------------------------
(* The retention manager (src/src/store/retention.ts) *)

Infinity == None

DefaultDays == 30

Digits == [c \in {"0", "1", "2", "3", "4", "5", "6", "7", "8", "9"} |->
             CASE c = "0" -> 0 [] c = "1" -> 1 [] c = "2" -> 2 [] c = "3" -> 3
               [] c = "4" -> 4 [] c = "5" -> 5 [] c = "6" -> 6 [] c = "7" -> 7
               [] c = "8" -> 8 [] c = "9" -> 9]

\* parseInt(numStr, 10) of a string of digits.
RECURSIVE parseInt(_)
parseInt(numStr) ==
  IF numStr = <<>> THEN 0
  ELSE parseInt(SubSeq(numStr, 1, Len(numStr) - 1)) * 10 + Digits[numStr[Len(numStr)]]

\* parseDays reading 'forever' as no days at all.
parseDays_ForeverIsZero(retention) ==
  IF retention = Forever THEN Some(0)
  ELSE IF /\ Len(retention) >= 2
          /\ \A i \in 1..(Len(retention) - 1) : retention[i] \in DOMAIN Digits
          /\ retention[Len(retention)] \in {"d", "m", "y"}
       THEN LET num == parseInt(SubSeq(retention, 1, Len(retention) - 1))
                unit == retention[Len(retention)]
            IN Some(CASE unit = "d" -> num
                      [] unit = "m" -> num * 30
                      [] unit = "y" -> num * 365)
       ELSE Some(DefaultDays)

\* parseDays with a month of one day.
parseDays_MonthsAsDays(retention) ==
  IF retention = Forever THEN Infinity
  ELSE IF /\ Len(retention) >= 2
          /\ \A i \in 1..(Len(retention) - 1) : retention[i] \in DOMAIN Digits
          /\ retention[Len(retention)] \in {"d", "m", "y"}
       THEN LET num == parseInt(SubSeq(retention, 1, Len(retention) - 1))
                unit == retention[Len(retention)]
            IN Some(CASE unit = "d" -> num
                      [] unit = "m" -> num
                      [] unit = "y" -> num * 365)
       ELSE Some(DefaultDays)

\* parseDays: 'forever' is Infinity, /^(\d+)(d|m|y)$/ gives days, months of
\* 30 days or years of 365 days, anything else is 30 days.
parseDays(retention) ==
  IF retention = Forever THEN Infinity
  ELSE IF /\ Len(retention) >= 2
          /\ \A i \in 1..(Len(retention) - 1) : retention[i] \in DOMAIN Digits
          /\ retention[Len(retention)] \in {"d", "m", "y"}
       THEN LET num == parseInt(SubSeq(retention, 1, Len(retention) - 1))
                unit == retention[Len(retention)]
            IN Some(CASE unit = "d" -> num
                      [] unit = "m" -> num * 30
                      [] unit = "y" -> num * 365)
       ELSE Some(DefaultDays)

\* The size of a compressed log in the archive directory.
ArchiveFileBytes == Gb \div 4

\* The sizes the database file grows through.  SQLite does not give pages
\* back to the file system when rows are deleted.
DbSizes == {3 * (Gb \div 4), 5 * (Gb \div 4)}

\* config.maxStorageGb * 1e9
MaxBytes == config.maxStorageGb * Gb

\* calculateStorageUsed: the size of the directory ~/.cc-sessions, which
\* holds the file at DB_PATH and the archive directory.
calculateStorageUsed ==
  (IF config.dbPath = "default" THEN fs.dbSize ELSE 0)
    + Cardinality(fs.archive) * ArchiveFileBytes

\* The estimate of the space a deleted session gives back.
EstimateBytes == 5000

\* SortByStartedAsc with the comparison turned round: newest first.
RECURSIVE SortByStartedAsc_NewestFirst(_)
SortByStartedAsc_NewestFirst(sessions) ==
  IF sessions = <<>> THEN <<>>
  ELSE LET i == CHOOSE i \in DOMAIN sessions : \A j \in DOMAIN sessions :
                  \/ sessions[i].startedAt > sessions[j].startedAt
                  \/ sessions[i].startedAt = sessions[j].startedAt /\ i <= j
       IN <<sessions[i]>>
            \o SortByStartedAsc_NewestFirst(SubSeq(sessions, 1, i - 1)
                                              \o SubSeq(sessions, i + 1, Len(sessions)))

\* sessions.sort((a, b) => a.startedAt - b.startedAt): a stable sort.
RECURSIVE SortByStartedAsc(_)
SortByStartedAsc(sessions) ==
  IF sessions = <<>> THEN <<>>
  ELSE LET i == CHOOSE i \in DOMAIN sessions : \A j \in DOMAIN sessions :
                  \/ sessions[i].startedAt < sessions[j].startedAt
                  \/ sessions[i].startedAt = sessions[j].startedAt /\ i <= j
       IN <<sessions[i]>>
            \o SortByStartedAsc(SubSeq(sessions, 1, i - 1) \o SubSeq(sessions, i + 1, Len(sessions)))

\* The retention configurations of the cleanup specification.
CleanupConfigs ==
  { [fullSessions |-> <<"0", "d">>, archives |-> <<"1", "d">>, maxStorageGb |-> 1, dbPath |-> "default"],
    [fullSessions |-> <<"0", "d">>, archives |-> Forever, maxStorageGb |-> 1, dbPath |-> "default"],
    [fullSessions |-> Forever, archives |-> Forever, maxStorageGb |-> 1, dbPath |-> "default"] }

\* The sessions saved in the cleanup specification, as the hooks build
\* them: an old one and a new one.
CleanupInputs ==
  { [WithLifecycle(BaseSession("x"), Fresh) EXCEPT !.startedAt = 0],
    WithLifecycle(BaseSession("y"), Fresh) }

\* The database file grows (inserts, a checkpoint of the write-ahead log).
DbFileGrows ==
  /\ run.pc = "idle"
  /\ DOMAIN rows # {}
  /\ \E size \in DbSizes : size > fs.dbSize /\ fs' = [fs EXCEPT !.dbSize = size]
  /\ last' = [op |-> "files", id |-> NoId, days |-> 0, ret |-> None, s |-> None]
  /\ UNCHANGED <<rows, fts, now, archRun, config, run, stmt, cloud, tracked>>

\* Claude removes a raw log (its own log retention).
LogFileRemoved(id) ==
  /\ run.pc = "idle"
  /\ LogFileOf(id) \in fs.logs
  /\ fs' = [fs EXCEPT !.logs = @ \ {LogFileOf(id)}]
  /\ last' = [op |-> "files", id |-> NoId, days |-> 0, ret |-> None, s |-> None]
  /\ UNCHANGED <<rows, fts, now, archRun, config, run, stmt, cloud, tracked>>

\* runCleanup, step 1 and the query of step 2: archiveOld(fullDays) unless
\* fullDays is Infinity, then the snapshot getArchived() returns.
CleanupArchive ==
  /\ run.pc = "idle"
  /\ LET fullDays == parseDays(config.fullSessions)
         hit == IF fullDays = Infinity THEN {} ELSE ArchiveHit(fullDays[1])
         table == IF fullDays = Infinity THEN rows ELSE ArchivedTable(fullDays[1])
     IN /\ rows' = table
        /\ fts' = FtsUpdate(fts, hit, rows, table)
        /\ run' = [IdleRun EXCEPT !.pc = "compress",
                                  !.report.sessionsArchived = Cardinality(hit),
                                  !.queue = getArchived',
                                  !.again = (last.op = "runCleanup"),
                                  !.before = [rows |-> rows, archive |-> fs.archive]]
  /\ last' = [op |-> "runCleanup:begin", id |-> NoId, days |-> 0, ret |-> None, s |-> None]
  /\ UNCHANGED <<now, archRun, fs, config, stmt, cloud, tracked>>

\* The outcomes of compressLogFile on an existing log: the archive is
\* written and recorded; reading or compressing fails; the write fails and
\* leaves a file behind.
CompressOutcomes == {"ok", "readFails", "writeFails"}

\* CleanupCompress counting every call of compressLogFile.
CleanupCompress_CountsAttempts(outcome) ==
  /\ run.pc = "compress"
  /\ run.queue # <<>>
  /\ LET session == Head(run.queue)
         path == ArchivePathOf(session.id)
         called == session.logFile # "" /\ session.logFileArchived = None
         exists == session.logFile \in fs.logs
         written == called /\ exists /\ outcome \in {"ok", "writeFails"}
         archived == called /\ exists /\ outcome = "ok"
     IN /\ (~(called /\ exists)) => outcome = "ok"
        /\ fs' = IF written THEN [fs EXCEPT !.archive = @ \cup {path}] ELSE fs
        /\ rows' = IF archived THEN ArchivePathTable(session.id, path) ELSE rows
        /\ fts' = IF archived
                  THEN FtsUpdate(fts, RowidsOf(session.id), rows, ArchivePathTable(session.id, path))
                  ELSE fts
        /\ run' = [run EXCEPT !.queue = Tail(@),
                              !.report.logFilesBackedUp = @ + (IF called THEN 1 ELSE 0)]
  /\ UNCHANGED <<now, last, archRun, config, stmt, cloud, tracked>>

\* CleanupCompress leaving the loop when compressLogFile returns null.
CleanupCompress_StopsOnFailure(outcome) ==
  /\ run.pc = "compress"
  /\ run.queue # <<>>
  /\ LET session == Head(run.queue)
         path == ArchivePathOf(session.id)
         called == session.logFile # "" /\ session.logFileArchived = None
         exists == session.logFile \in fs.logs
         written == called /\ exists /\ outcome \in {"ok", "writeFails"}
         archived == called /\ exists /\ outcome = "ok"
     IN /\ (~(called /\ exists)) => outcome = "ok"
        /\ fs' = IF written THEN [fs EXCEPT !.archive = @ \cup {path}] ELSE fs
        /\ rows' = IF archived THEN ArchivePathTable(session.id, path) ELSE rows
        /\ fts' = IF archived
                  THEN FtsUpdate(fts, RowidsOf(session.id), rows, ArchivePathTable(session.id, path))
                  ELSE fts
        /\ run' = [run EXCEPT !.queue = IF called /\ ~archived THEN <<>> ELSE Tail(@),
                              !.report.logFilesBackedUp = @ + (IF archived THEN 1 ELSE 0)]
  /\ UNCHANGED <<now, last, archRun, config, stmt, cloud, tracked>>

\* CleanupCompress recording the archive path whatever compressLogFile did.
CleanupCompress_RecordsAnyway(outcome) ==
  /\ run.pc = "compress"
  /\ run.queue # <<>>
  /\ LET session == Head(run.queue)
         path == ArchivePathOf(session.id)
         called == session.logFile # "" /\ session.logFileArchived = None
         exists == session.logFile \in fs.logs
         written == called /\ exists /\ outcome \in {"ok", "writeFails"}
         archived == called /\ exists
     IN /\ (~(called /\ exists)) => outcome = "ok"
        /\ fs' = IF written THEN [fs EXCEPT !.archive = @ \cup {path}] ELSE fs
        /\ rows' = IF archived THEN ArchivePathTable(session.id, path) ELSE rows
        /\ fts' = IF archived
                  THEN FtsUpdate(fts, RowidsOf(session.id), rows, ArchivePathTable(session.id, path))
                  ELSE fts
        /\ run' = [run EXCEPT !.queue = Tail(@),
                              !.report.logFilesBackedUp = @ + (IF archived THEN 1 ELSE 0)]
  /\ UNCHANGED <<now, last, archRun, config, stmt, cloud, tracked>>

\* runCleanup, step 2, one session of the snapshot: compressLogFile if the
\* session has a log file and no archive path.
CleanupCompress(outcome) ==
  /\ run.pc = "compress"
  /\ run.queue # <<>>
  /\ LET session == Head(run.queue)
         path == ArchivePathOf(session.id)
         called == session.logFile # "" /\ session.logFileArchived = None
         exists == session.logFile \in fs.logs
         written == called /\ exists /\ outcome \in {"ok", "writeFails"}
         archived == called /\ exists /\ outcome = "ok"
     IN /\ (~(called /\ exists)) => outcome = "ok"
        /\ fs' = IF written THEN [fs EXCEPT !.archive = @ \cup {path}] ELSE fs
        /\ rows' = IF archived THEN ArchivePathTable(session.id, path) ELSE rows
        /\ fts' = IF archived
                  THEN FtsUpdate(fts, RowidsOf(session.id), rows, ArchivePathTable(session.id, path))
                  ELSE fts
        /\ run' = [run EXCEPT !.queue = Tail(@),
                              !.report.logFilesBackedUp = @ + (IF archived THEN 1 ELSE 0)]
  /\ UNCHANGED <<now, last, archRun, config, stmt, cloud, tracked>>

\* runCleanup, step 3 and the test of step 4: deleteOld(archiveDays) unless
\* archiveDays is Infinity, then stats.storageUsedBytes > maxBytes decides
\* whether trimToStorageLimit runs; it starts with the sessions sorted and
\* the size of the directory.
CleanupDelete ==
  /\ run.pc = "compress"
  /\ run.queue = <<>>
  /\ LET archiveDays == parseDays(config.archives)
         hit == IF archiveDays = Infinity THEN {} ELSE DeleteOldHit(archiveDays[1])
         beforeCount == getStats.totalSessions
         afterCount == beforeCount - Cardinality(hit)
     IN /\ rows' = [r \in DOMAIN rows \ hit |-> rows[r]]
        /\ fts' = FtsDelete(fts, hit, rows)
        /\ run' = [run EXCEPT
                     !.pc = IF getStats.storageUsedBytes > MaxBytes THEN "trim" ELSE "done",
                     !.report.sessionsDeleted = Cardinality(hit),
                     !.report.bytesFreed =
                        IF Cardinality(hit) > 0 THEN (beforeCount - afterCount) * EstimateBytes ELSE 0,
                     !.queue = IF getStats.storageUsedBytes > MaxBytes
                               THEN SortByStartedAsc(getAll(TRUE)') ELSE <<>>,
                     !.currentSize = IF getStats.storageUsedBytes > MaxBytes
                                     THEN calculateStorageUsed ELSE 0]
  /\ UNCHANGED <<now, last, archRun, fs, config, stmt, cloud, tracked>>

\* trimToStorageLimit, one turn of the loop: the archive of the session is
\* unlinked if it exists, the session is deleted, the directory is measured.
TrimStep ==
  /\ run.pc = "trim"
  /\ run.queue # <<>>
  /\ run.currentSize > MaxBytes
  /\ UNCHANGED <<now, last, archRun, config, stmt, cloud, tracked>>
  /\ LET session == Head(run.queue)
         unlink == session.logFileArchived # None /\ session.logFileArchived[1] \in fs.archive
         hit == RowidsOf(session.id)
     IN /\ fs' = IF unlink THEN [fs EXCEPT !.archive = @ \ {session.logFileArchived[1]}] ELSE fs
        /\ rows' = [r \in DOMAIN rows \ hit |-> rows[r]]
        /\ fts' = FtsDelete(fts, hit, rows)
        /\ run' = [run EXCEPT
                     !.queue = Tail(@),
                     !.result.deleted = @ + (IF hit # {} THEN 1 ELSE 0),
                     !.result.bytesFreed = @ + (IF unlink THEN ArchiveFileBytes ELSE 0)
                                             + (IF hit # {} THEN EstimateBytes ELSE 0),
                     !.currentSize = calculateStorageUsed']

\* trimToStorageLimit returns: the loop is over or has hit the break, and
\* runCleanup adds the result to its report.
TrimReturn ==
  /\ run.pc = "trim"
  /\ run.queue = <<>> \/ run.currentSize <= MaxBytes
  /\ run' = [run EXCEPT !.pc = "done",
                        !.queue = <<>>,
                        !.report.sessionsDeleted = @ + run.result.deleted,
                        !.report.bytesFreed = @ + run.result.bytesFreed]
  /\ UNCHANGED <<rows, fts, now, last, archRun, fs, config, stmt, cloud, tracked>>

\* runCleanup returns its report.
CleanupReturn ==
  /\ run.pc = "done"
  /\ run' = IdleRun
  /\ last' = [op |-> "runCleanup", id |-> NoId, days |-> 0, ret |-> Some(run.report), s |-> None]
  /\ UNCHANGED <<rows, fts, now, archRun, fs, config, stmt, cloud, tracked>>

InitCleanup == InitStore /\ config \in CleanupConfigs

\* The store under saves and runCleanup, with the files around it.
NextCleanup ==
  \/ Tick
  \/ \E s \in CleanupInputs : Save(s)
  \/ DbFileGrows
  \/ \E id \in Ids : LogFileRemoved(id)
  \/ CleanupArchive
  \/ \E outcome \in CompressOutcomes : CleanupCompress(outcome)
  \/ CleanupDelete
  \/ TrimStep
  \/ TrimReturn
  \/ CleanupReturn

SpecCleanup == InitCleanup /\ [][NextCleanup]_vars

\* The store is filled while no runCleanup call has been made; then
\* runCleanup is called again and again with no other writer.
NextCleanupRuns ==
  \/ last.op \notin {"runCleanup:begin", "runCleanup"} /\ Tick
  \/ last.op \notin {"runCleanup:begin", "runCleanup"} /\ \E s \in CleanupInputs : Save(s)
  \/ last.op \notin {"runCleanup:begin", "runCleanup"} /\ DbFileGrows
  \/ last.op \notin {"runCleanup:begin", "runCleanup"} /\ \E id \in Ids : LogFileRemoved(id)
  \/ CleanupArchive
  \/ \E outcome \in CompressOutcomes : CleanupCompress(outcome)
  \/ CleanupDelete
  \/ TrimStep
  \/ TrimReturn
  \/ CleanupReturn

SpecCleanupRuns == InitCleanup /\ [][NextCleanupRuns]_vars

\* The store opened on DB_PATH and a store opened on a path of its own,
\* new SessionStore(dbPath); fs.dbSize is the size of the file it is
\* opened on.
PathConfigs ==
  { [fullSessions |-> <<"0", "d">>, archives |-> Forever, maxStorageGb |-> 1, dbPath |-> "default"],
    [fullSessions |-> <<"0", "d">>, archives |-> Forever, maxStorageGb |-> 1, dbPath |-> "custom"] }

InitPaths == InitStore /\ config \in PathConfigs

SpecPaths == InitPaths /\ [][NextCleanupRuns]_vars

\* Configurations with a period of 'forever': the first, the second, both.
ForeverConfigs ==
  { [fullSessions |-> Forever, archives |-> <<"1", "d">>, maxStorageGb |-> 1, dbPath |-> "default"],
    [fullSessions |-> <<"0", "d">>, archives |-> Forever, maxStorageGb |-> 1, dbPath |-> "default"],
    [fullSessions |-> Forever, archives |-> Forever, maxStorageGb |-> 1, dbPath |-> "default"] }

InitForever == InitStore /\ config \in ForeverConfigs

SpecForever == InitForever /\ [][NextCleanupRuns]_vars

\* runCleanup, step 3 statement by statement, for a store that another
\* process writes to.  First statement: beforeCount, unless archiveDays is
\* Infinity and the step is left out.
CleanupCountBefore ==
  /\ run.pc = "compress"
  /\ run.queue = <<>>
  /\ run' = [run EXCEPT !.pc = IF parseDays(config.archives) = Infinity THEN "after" ELSE "delete",
                        !.beforeCount = getStats.totalSessions]
  /\ UNCHANGED <<rows, fts, now, last, archRun, fs, config, stmt, cloud, tracked>>

\* Second statement: report.sessionsDeleted = this.store.deleteOld(archiveDays).
CleanupDeleteOld ==
  /\ run.pc = "delete"
  /\ LET hit == DeleteOldHit(parseDays(config.archives)[1])
     IN /\ rows' = [r \in DOMAIN rows \ hit |-> rows[r]]
        /\ fts' = FtsDelete(fts, hit, rows)
        /\ run' = [run EXCEPT !.pc = "after", !.report.sessionsDeleted = Cardinality(hit)]
  /\ UNCHANGED <<now, last, archRun, fs, config, stmt, cloud, tracked>>

\* Third statement: afterCount and the estimate of bytesFreed; then the
\* test of step 4 and the start of trimToStorageLimit.
CleanupCountAfter ==
  /\ run.pc = "after"
  /\ LET afterCount == getStats.totalSessions
         counted == parseDays(config.archives) # Infinity /\ run.report.sessionsDeleted > 0
         trim == getStats.storageUsedBytes > MaxBytes
     IN run' = [run EXCEPT
                  !.pc = IF trim THEN "trim" ELSE "done",
                  !.report.bytesFreed =
                     IF counted THEN (run.beforeCount - afterCount) * EstimateBytes ELSE 0,
                  !.queue = IF trim THEN SortByStartedAsc(getAll(TRUE)) ELSE <<>>,
                  !.currentSize = IF trim THEN calculateStorageUsed ELSE 0]
  /\ UNCHANGED <<rows, fts, now, last, archRun, fs, config, stmt, cloud, tracked>>

\* A hook in another process saves a session while runCleanup is between
\* two statements of step 3.
SaveMeanwhile(s) ==
  /\ run.pc \in {"delete", "after"}
  /\ NewRowid <= MaxRowid
  /\ rows' = ReplacedTable(s, now)
  /\ fts' = FtsInsert(fts, {NewRowid}, ReplacedTable(s, now))
  /\ UNCHANGED <<now, last, archRun, fs, config, run, stmt, cloud, tracked>>

\* runCleanup on a store that the hooks of other processes save to.
NextShared ==
  \/ last.op \notin {"runCleanup:begin", "runCleanup"} /\ Tick
  \/ last.op \notin {"runCleanup:begin", "runCleanup"} /\ \E s \in CleanupInputs : Save(s)
  \/ last.op \notin {"runCleanup:begin", "runCleanup"} /\ DbFileGrows
  \/ CleanupArchive
  \/ \E outcome \in CompressOutcomes : CleanupCompress(outcome)
  \/ CleanupCountBefore
  \/ CleanupDeleteOld
  \/ \E s \in CleanupInputs : SaveMeanwhile(s)
  \/ CleanupCountAfter
  \/ TrimStep
  \/ TrimReturn
  \/ CleanupReturn

SpecShared == InitCleanup /\ [][NextShared]_vars

\* Date.now() of deleteOld is read later than Date.now() of archiveOld:
\* runCleanup awaits the compressions in between.
ClockAdvances ==
  /\ run.pc = "compress"
  /\ now < MaxDay * DayMs
  /\ now' = now + DayMs
  /\ UNCHANGED <<rows, fts, last, archRun, fs, config, run, stmt, cloud, tracked>>

\* Finite periods with fullSessions <= archives: equal, and a day apart.
ClockConfigs ==
  { [fullSessions |-> <<"1", "d">>, archives |-> <<"1", "d">>, maxStorageGb |-> 1, dbPath |-> "default"],
    [fullSessions |-> <<"0", "d">>, archives |-> <<"1", "d">>, maxStorageGb |-> 1, dbPath |-> "default"] }

InitClock == InitStore /\ config \in ClockConfigs

\* runCleanup called again and again while the clock goes on.
NextClock ==
  \/ NextCleanupRuns
  \/ ClockAdvances

SpecClock == InitClock /\ [][NextClock]_vars

\* The retention strings handed to parseDays: every string of up to
\* MaxLen of these characters, and 'forever'.
RetentionChars == {"0", "1", "2", "d", "m", "y", "x"}
RetentionStrings ==
  {Forever} \cup UNION {[1..n -> RetentionChars] : n \in 0..MaxLen}

\* A RetentionManager is constructed on a configuration.
InitParse ==
  /\ InitStore
  /\ config \in {[DEFAULT_CONFIG EXCEPT !.fullSessions = r] : r \in RetentionStrings}

\* parseDays(this.config.fullSessions) is called.
ParseDays ==
  /\ run.pc = "idle"
  /\ last' = [op |-> "parseDays", id |-> NoId, days |-> 0,
              ret |-> Some(parseDays(config.fullSessions)), s |-> None]
  /\ UNCHANGED <<rows, fts, now, archRun, fs, config, run, stmt, cloud, tracked>>

NextParse == ParseDays

SpecParse == InitParse /\ [][NextParse]_vars

----------------------------------------------------------------------------
(* save from several processes *)

\* The database is opened in WAL mode: one connection at a time holds the
\* write lock, and a statement is a transaction of its own. The statement of
\* save works on the tables as its transaction sees them (rows, fts of the
\* record stmt[p]) and the other connections see the committed tables only.
\* A process that waits for the lock longer than the busy timeout has its
\* save throw SQLITE_BUSY with nothing written (SaveBusy).

\* save is called: the values are bound, Date.now() is read.
SaveCall(p, s) ==
  /\ run.pc = "idle"
  /\ stmt[p].pc = "idle"
  /\ stmt' = [stmt EXCEPT ![p] = [IdleTx EXCEPT !.pc = "bound", !.s = Some(s), !.t = now]]
  /\ UNCHANGED <<rows, fts, now, last, archRun, fs, config, run, cloud, tracked>>

\* The write lock handed out although another statement holds it.
SaveLock_NoExclusion(p) ==
  /\ stmt[p].pc = "bound"
  /\ NewRowid <= MaxRowid
  /\ stmt' = [stmt EXCEPT ![p].pc = "locked", ![p].rowid = NewRowid,
                          ![p].rows = rows, ![p].fts = fts]
  /\ UNCHANGED <<rows, fts, now, last, archRun, fs, config, run, cloud, tracked>>

\* stmt.run() starts: the statement takes the write lock, which no other
\* statement holds, and the new rowid is chosen.
SaveLock(p) ==
  /\ stmt[p].pc = "bound"
  /\ \A q \in Procs \ {p} : stmt[q].pc \in {"idle", "bound"}
  /\ NewRowid <= MaxRowid
  /\ stmt' = [stmt EXCEPT ![p].pc = "locked", ![p].rowid = NewRowid,
                          ![p].rows = rows, ![p].fts = fts]
  /\ UNCHANGED <<rows, fts, now, last, archRun, fs, config, run, cloud, tracked>>

\* The lock is not handed out in time: save throws, nothing is written.
SaveBusy(p) ==
  /\ stmt[p].pc = "bound"
  /\ \E q \in Procs \ {p} : stmt[q].pc \notin {"idle", "bound"}
  /\ stmt' = [stmt EXCEPT ![p] = IdleTx]
  /\ UNCHANGED <<rows, fts, now, last, archRun, fs, config, run, cloud, tracked>>

\* OR REPLACE: the row that holds the id is removed; sessions_ad does not run.
SaveReplace(p) ==
  /\ stmt[p].pc = "locked"
  /\ LET table == stmt[p].rows
         kept == {r \in DOMAIN table : table[r].id # stmt[p].s[1].id}
     IN stmt' = [stmt EXCEPT ![p].pc = "replaced", ![p].rows = [r \in kept |-> table[r]]]
  /\ UNCHANGED <<rows, fts, now, last, archRun, fs, config, run, cloud, tracked>>

\* INSERT: the row of the bound values under the new rowid.
SaveInsert(p) ==
  /\ stmt[p].pc = "replaced"
  /\ LET table == stmt[p].rows
         rowid == stmt[p].rowid
     IN stmt' = [stmt EXCEPT ![p].pc = "inserted",
                   ![p].rows = [r \in DOMAIN table \cup {rowid} |->
                                  IF r = rowid THEN BindRow(stmt[p].s[1], stmt[p].t)
                                  ELSE table[r]]]
  /\ UNCHANGED <<rows, fts, now, last, archRun, fs, config, run, cloud, tracked>>

\* sessions_ai runs for the inserted row.
SaveTrigger(p) ==
  /\ stmt[p].pc = "inserted"
  /\ stmt' = [stmt EXCEPT ![p].pc = "triggered",
                ![p].fts = FtsInsert(stmt[p].fts, {stmt[p].rowid}, stmt[p].rows)]
  /\ UNCHANGED <<rows, fts, now, last, archRun, fs, config, run, cloud, tracked>>

\* The statement commits and save returns: the tables of the transaction
\* become the committed ones, the lock is released.
SaveCommit(p) ==
  /\ stmt[p].pc = "triggered"
  /\ rows' = stmt[p].rows
  /\ fts' = stmt[p].fts
  /\ last' = [op |-> "save", id |-> stmt[p].s[1].id, days |-> 0, ret |-> None, s |-> stmt[p].s]
  /\ archRun' = None
  /\ stmt' = [stmt EXCEPT ![p] = IdleTx]
  /\ UNCHANGED <<now, fs, config, run, cloud, tracked>>

NextConcurrent ==
  \/ Tick
  \/ \E p \in Procs, s \in TextInputs : SaveCall(p, s)
  \/ \E p \in Procs : SaveLock(p)
  \/ \E p \in Procs : SaveBusy(p)
  \/ \E p \in Procs : SaveReplace(p)
  \/ \E p \in Procs : SaveInsert(p)
  \/ \E p \in Procs : SaveTrigger(p)
  \/ \E p \in Procs : SaveCommit(p)

SpecConcurrent == Init /\ [][NextConcurrent]_vars

----------------------------------------------------------------------------
(* Cloud sync (src/src/sync/cloud.ts) and the session-end hook *)

\* ORDER BY started_at ASC: rows with equal started_at come in rowid order.
RECURSIVE OrderByStartedAsc(_)
OrderByStartedAsc(S) ==
  IF S = {} THEN <<>>
  ELSE LET first == CHOOSE r \in S : \A q \in S :
                      \/ rows[r].started_at < rows[q].started_at
                      \/ rows[r].started_at = rows[q].started_at /\ r <= q
       IN <<first>> \o OrderByStartedAsc(S \ {first})

\* getUnsyncedSessions with ORDER BY started_at DESC.
getUnsyncedSessions_NewestFirst ==
  LET order == OrderByStartedDesc({r \in DOMAIN rows : rows[r].synced = 0})
  IN [i \in DOMAIN order |-> rowToSession(rows[order[i]])]

\* SELECT * FROM sessions WHERE synced = 0 ORDER BY started_at ASC
getUnsyncedSessions ==
  LET order == OrderByStartedAsc({r \in DOMAIN rows : rows[r].synced = 0})
  IN [i \in DOMAIN order |-> rowToSession(rows[order[i]])]

\* encryptJson: JSON.stringify turns a Date into its ISO string and leaves
\* an undefined field out; the cipher is undone by decryptJson with the key.
encryptJson(s) ==
  [s EXCEPT !.startedAt = toISOString(DateOf(@)),
            !.archivedAt = IF @ = None THEN None ELSE Some(toISOString(DateOf(@[1]))),
            !.syncedAt = IF @ = None THEN None ELSE Some(toISOString(DateOf(@[1])))]

\* decryptJson and the restoring of the Date objects in downloadSession:
\* new Date(iso); archivedAt and syncedAt only if they are there.
decryptJson(o) ==
  [o EXCEPT !.startedAt = @[2],
            !.archivedAt = IF @ = None THEN None ELSE Some(@[1][2]),
            !.syncedAt = IF @ = None THEN None ELSE Some(@[1][2])]

\* The bucket after PutObject of the session under this device.
Uploaded(s) == [cloud.bucket EXCEPT ![getSessionKey(deviceId, s.id)] = Some(encryptJson(s))]

\* listRemoteSessions: the objects of the bucket in key order, each with the
\* device and the session id its key names.
RECURSIVE ListKeys(_)
ListKeys(K) ==
  IF K = {} THEN <<>>
  ELSE LET k == CHOOSE k \in K : \A j \in K :
                  \/ k[2] = "here" /\ j[2] = "there"
                  \/ k[2] = j[2] /\ (k[3] = "x" \/ j[3] = "y")
       IN <<[deviceId |-> k[2], sessionId |-> k[3], key |-> k]>> \o ListKeys(K \ {k})

listRemoteSessions == ListKeys({k \in Keys : cloud.bucket[k] # None})

\* The sessions this device creates and the ones the other device creates:
\* an id is generated by the device that creates the session.
LocalInputs == { WithLifecycle(BaseSession("x"), Fresh) }
RemoteInputs ==
  { [WithLifecycle(BaseSession("y"), Fresh) EXCEPT !.synced = Some(FALSE)],
    [WithLifecycle(BaseSession("y"), Fresh) EXCEPT !.synced = Some(FALSE), !.summary = {W_b}] }

Outcomes == {"ok", "fails"}

\* sessionEndHook: store.save(sessionMemory), the upload is still to come.
HookSave(s) ==
  /\ run.pc = "idle"
  /\ cloud.hook = None
  /\ NewRowid <= MaxRowid
  /\ rows' = ReplacedTable(s, now)
  /\ fts' = FtsInsert(fts, {NewRowid}, ReplacedTable(s, now))
  /\ last' = [op |-> "save", id |-> s.id, days |-> 0, ret |-> None, s |-> Some(s)]
  /\ archRun' = None
  /\ cloud' = [cloud EXCEPT !.hook = Some(s)]
  /\ UNCHANGED <<now, fs, config, run, stmt, tracked>>

\* sessionEndHook, cloud block: await uploadSession(sessionMemory), then
\* markSynced; an upload that throws is caught and nothing else is done.
HookUpload(outcome) ==
  /\ cloud.hook # None
  /\ LET s == cloud.hook[1]
     IN /\ IF outcome = "ok"
           THEN /\ rows' = SyncedTable(s.id)
                /\ fts' = FtsUpdate(fts, RowidsOf(s.id), rows, SyncedTable(s.id))
                /\ cloud' = [cloud EXCEPT !.hook = None, !.bucket = Uploaded(s)]
           ELSE /\ cloud' = [cloud EXCEPT !.hook = None]
                /\ UNCHANGED <<rows, fts>>
        /\ last' = [op |-> "hookUpload", id |-> s.id, days |-> 0,
                    ret |-> Some(outcome = "ok"), s |-> None]
  /\ UNCHANGED <<now, archRun, fs, config, run, stmt, tracked>>

\* Another device uploads a session of its own.
RemoteUpload(s) ==
  /\ cloud.bucket[getSessionKey("there", s.id)] # Some(encryptJson(s))
  /\ cloud' = [cloud EXCEPT !.bucket[getSessionKey("there", s.id)] = Some(encryptJson(s))]
  /\ last' = [op |-> "remote", id |-> s.id, days |-> 0, ret |-> None, s |-> None]
  /\ UNCHANGED <<rows, fts, now, archRun, fs, config, run, stmt, tracked>>

\* sync is called: the report is made, getUnsyncedSessions is read.
SyncBegin ==
  /\ run.pc = "idle"
  /\ cloud.sync.pc = "idle"
  /\ cloud' = [cloud EXCEPT !.sync = [IdleSync EXCEPT !.pc = "upload", !.queue = getUnsyncedSessions]]
  /\ last' = [op |-> "sync:begin", id |-> NoId, days |-> 0, ret |-> None, s |-> None]
  /\ UNCHANGED <<rows, fts, now, archRun, fs, config, run, stmt, tracked>>

\* Step 1 with markSynced and the count outside the try block.
SyncUpload_MarksAnyway(outcome) ==
  /\ cloud.sync.pc = "upload"
  /\ cloud.sync.queue # <<>>
  /\ LET s == Head(cloud.sync.queue)
     IN /\ rows' = SyncedTable(s.id)
        /\ fts' = FtsUpdate(fts, RowidsOf(s.id), rows, SyncedTable(s.id))
        /\ cloud' = [cloud EXCEPT !.sync.queue = Tail(@), !.sync.report.uploaded = @ + 1,
                                  !.bucket = IF outcome = "ok" THEN Uploaded(s) ELSE @]
        /\ last' = [op |-> "upload", id |-> s.id, days |-> 0,
                    ret |-> Some(outcome = "ok"), s |-> Some(s)]
  /\ UNCHANGED <<now, archRun, fs, config, run, stmt, tracked>>

\* Step 1, one turn of the loop: await uploadSession(session), then
\* markSynced and the count; an upload that throws is caught.
SyncUpload(outcome) ==
  /\ cloud.sync.pc = "upload"
  /\ cloud.sync.queue # <<>>
  /\ LET s == Head(cloud.sync.queue)
     IN /\ IF outcome = "ok"
           THEN /\ rows' = SyncedTable(s.id)
                /\ fts' = FtsUpdate(fts, RowidsOf(s.id), rows, SyncedTable(s.id))
                /\ cloud' = [cloud EXCEPT !.sync.queue = Tail(@), !.sync.report.uploaded = @ + 1,
                                          !.bucket = Uploaded(s)]
           ELSE /\ cloud' = [cloud EXCEPT !.sync.queue = Tail(@)]
                /\ UNCHANGED <<rows, fts>>
        /\ last' = [op |-> "upload", id |-> s.id, days |-> 0,
                    ret |-> Some(outcome = "ok"), s |-> Some(s)]
  /\ UNCHANGED <<now, archRun, fs, config, run, stmt, tracked>>

\* Step 2 starts: await listRemoteSessions(); if it throws, the outer catch
\* logs 'Sync failed' and the report is returned as it stands.
SyncList(outcome) ==
  /\ cloud.sync.pc = "upload"
  /\ cloud.sync.queue = <<>>
  /\ cloud' = IF outcome = "ok"
              THEN [cloud EXCEPT !.sync.pc = "download", !.sync.remote = listRemoteSessions]
              ELSE [cloud EXCEPT !.sync.pc = "failed"]
  /\ last' = [op |-> "list", id |-> NoId, days |-> 0, ret |-> Some(outcome = "ok"), s |-> None]
  /\ UNCHANGED <<rows, fts, now, archRun, fs, config, run, stmt, tracked>>

\* Step 2 without the test of the local record.
SyncCheck_NoLocalTest ==
  /\ cloud.sync.pc = "download"
  /\ cloud.sync.remote # <<>>
  /\ LET info == Head(cloud.sync.remote)
     IN cloud' = IF info.deviceId = deviceId
                 THEN [cloud EXCEPT !.sync.remote = Tail(@)]
                 ELSE [cloud EXCEPT !.sync.pc = "downloading"]
  /\ last' = [op |-> "check", id |-> Head(cloud.sync.remote).sessionId, days |-> 0,
              ret |-> None, s |-> None]
  /\ UNCHANGED <<rows, fts, now, archRun, fs, config, run, stmt, tracked>>

\* Step 2, one turn of the loop up to the download: an upload of this
\* device is skipped, and so is a session getById finds here.
SyncCheck ==
  /\ cloud.sync.pc = "download"
  /\ cloud.sync.remote # <<>>
  /\ LET info == Head(cloud.sync.remote)
     IN cloud' = IF info.deviceId = deviceId \/ getById(info.sessionId) # NotFound
                 THEN [cloud EXCEPT !.sync.remote = Tail(@)]
                 ELSE [cloud EXCEPT !.sync.pc = "downloading"]
  /\ last' = [op |-> "check", id |-> Head(cloud.sync.remote).sessionId, days |-> 0,
              ret |-> None, s |-> None]
  /\ UNCHANGED <<rows, fts, now, archRun, fs, config, run, stmt, tracked>>

\* The session of a download, marked as synced since it came from the cloud.
Downloaded(info) ==
  [decryptJson(cloud.bucket[info.key][1]) EXCEPT !.synced = Some(TRUE), !.syncedAt = Some(now)]

\* The rest of the turn: await downloadSession(info), session.synced = true,
\* session.syncedAt = new Date(), store.save(session) and the count; a
\* download that throws is caught.
SyncDownload(outcome) ==
  /\ cloud.sync.pc = "downloading"
  /\ LET info == Head(cloud.sync.remote)
     IN /\ IF outcome = "ok"
           THEN /\ NewRowid <= MaxRowid
                /\ rows' = ReplacedTable(Downloaded(info), now)
                /\ fts' = FtsInsert(fts, {NewRowid}, ReplacedTable(Downloaded(info), now))
                /\ archRun' = None
                /\ cloud' = [cloud EXCEPT !.sync.pc = "download", !.sync.remote = Tail(@),
                                          !.sync.report.downloaded = @ + 1]
           ELSE /\ cloud' = [cloud EXCEPT !.sync.pc = "download", !.sync.remote = Tail(@)]
                /\ UNCHANGED <<rows, fts, archRun>>
        /\ last' = [op |-> "download", id |-> info.sessionId, days |-> 0,
                    ret |-> Some(outcome = "ok"), s |-> None]
  /\ UNCHANGED <<now, fs, config, run, stmt, tracked>>

\* return report
SyncReturn ==
  /\ \/ cloud.sync.pc = "download" /\ cloud.sync.remote = <<>>
     \/ cloud.sync.pc = "failed"
  /\ cloud' = [cloud EXCEPT !.sync = IdleSync]
  /\ last' = [op |-> "sync", id |-> NoId, days |-> 0, ret |-> Some(cloud.sync.report), s |-> None]
  /\ UNCHANGED <<rows, fts, now, archRun, fs, config, run, stmt, tracked>>

NextSync ==
  \/ Tick
  \/ \E s \in LocalInputs : HookSave(s)
  \/ \E outcome \in Outcomes : HookUpload(outcome)
  \/ \E s \in RemoteInputs : RemoteUpload(s)
  \/ SyncBegin
  \/ \E outcome \in Outcomes : SyncUpload(outcome)
  \/ \E outcome \in Outcomes : SyncList(outcome)
  \/ SyncCheck
  \/ \E outcome \in Outcomes : SyncDownload(outcome)
  \/ SyncReturn

SpecSync == Init /\ [][NextSync]_vars

\* The sessions of this device when it is the only one that syncs: the
\* one saved first is the newer one.
UploadInputs ==
  { WithLifecycle(BaseSession("x"), Fresh),
    [WithLifecycle(BaseSession("y"), Fresh) EXCEPT !.startedAt = 0] }

NextUpload ==
  \/ Tick
  \/ \E s \in UploadInputs : HookSave(s)
  \/ \E outcome \in Outcomes : HookUpload(outcome)
  \/ SyncBegin
  \/ \E outcome \in Outcomes : SyncUpload(outcome)
  \/ \E outcome \in Outcomes : SyncList(outcome)
  \/ SyncCheck
  \/ SyncReturn

SpecUpload == Init /\ [][NextUpload]_vars

----------------------------------------------------------------------------
(* Sessions of several projects *)

\* The project paths asked for: a project, a directory below it, and the
\* root, which no session has.
ProjectArgs == {"/p", "/p/sub", "/"}

\* The sessions saved: x old in /p or new in /p/sub, y new and archived in
\* /p or as old as x in /p.
ProjectInputs ==
  { [WithLifecycle(BaseSession("x"), Fresh) EXCEPT !.startedAt = 0],
    [WithLifecycle(BaseSession("x"), Fresh) EXCEPT !.projectPath = "/p/sub"],
    WithLifecycle(BaseSession("y"), Archived),
    [WithLifecycle(BaseSession("y"), Fresh) EXCEPT !.startedAt = 0] }

NextProject ==
  \/ Tick
  \/ \E s \in ProjectInputs : Save(s)
  \/ \E id \in Ids : Delete(id)
  \/ \E d \in DayArgs : ArchiveOld(d)

SpecProject == Init /\ [][NextProject]_vars

----------------------------------------------------------------------------
(* SearchIndex over the store *)

\* The sessions searched: all hold the word "a" in the summary; x is old
\* and in /p/sub or new and in /p, y is new, in /p and archived or active.
IndexInputs ==
  { [WithText(WithLifecycle(BaseSession("x"), Fresh), Text_a_tag_b) EXCEPT
       !.startedAt = 0, !.projectPath = "/p/sub"],
    WithText(WithLifecycle(BaseSession("x"), Fresh), Text_ab),
    WithText(WithLifecycle(BaseSession("y"), Archived), Text_a_tag_b),
    WithText(WithLifecycle(BaseSession("y"), Fresh), Text_a_tag_b) }

\* The options of SearchIndex.search.
IndexOptions ==
  [ query : {W_a, W_b},
    projectPath : {None, Some("/p"), Some("/p/sub")},
    fromDate : {None, Some(DayMs)},
    toDate : {None, Some(0), Some(DayMs)},
    limit : {None, Some(0), Some(1)},
    includeArchived : BOOLEAN ]

NextIndex ==
  \/ \E s \in IndexInputs : Save(s)
  \/ \E id \in Ids : Delete(id)

SpecIndex == Init /\ [][NextIndex]_vars

----------------------------------------------------------------------------
(* The periodic-save hook (src/src/hooks/periodic-save.ts) and the        *)
(* session-end hook, as writers of one store                              *)

\* The tags of a checkpoint.
TagCheckpoint == <<"checkpoint">>
TagInProgress == <<"in-progress">>

\* What parseLogFile gives for the log of a Claude session: two sessions
\* of one project, the first started a day before the second.  The hook
\* context of a session has its claudeSessionId and its cwd.
ParsedSessions ==
  { [claudeSessionId |-> "claude-A", cwd |-> "/p", projectPath |-> "/p",
     startTime |-> 0, logPath |-> "/logs/claude-A.jsonl"],
    [claudeSessionId |-> "claude-B", cwd |-> "/p", projectPath |-> "/p",
     startTime |-> DayMs, logPath |-> "/logs/claude-B.jsonl"] }

\* createCheckpointMemory(parsed, logPath, existingId), id being existingId
\* or, without one, what generateId() returns.
createCheckpointMemory(parsed, id) ==
  [BaseSession(id) EXCEPT
     !.claudeSessionId = parsed.claudeSessionId, !.projectPath = parsed.projectPath,
     !.startedAt = parsed.startTime, !.summary = {W_a},
     !.tags = <<TagCheckpoint, TagInProgress>>, !.logFile = parsed.logPath]

\* createSessionMemory(parsed, summary, logPath), id being what
\* generateId() returns.
createSessionMemory(parsed, id) ==
  [BaseSession(id) EXCEPT
     !.claudeSessionId = parsed.claudeSessionId, !.projectPath = parsed.projectPath,
     !.startedAt = parsed.startTime, !.summary = {W_ab},
     !.tags = <<>>, !.logFile = parsed.logPath]

\* generateId() returns an id that no record has.
IsGenerated(id) == getById(id) = NotFound

\* recent.find(s => s.claudeSessionId === parsed.claudeSessionId ||
\* s.tags.includes('in-progress')) || null
FindCheckpoint(recent, parsed) ==
  LET hits == {i \in DOMAIN recent :
                 \/ recent[i].claudeSessionId = parsed.claudeSessionId
                 \/ TagInProgress \in Range(recent[i].tags)}
  IN IF hits = {} THEN NotFound ELSE recent[SetMin(hits)]

\* The number of sessions the hook asks getRecent for.
RecentWindow == 5

\* existingMemory of periodicSaveHook in process p: the record of
\* currentSessionMemoryId if the process has one and the record is stored,
\* else what the five newest active records of context.cwd hold.
ExistingMemory(p, parsed) ==
  IF tracked[p] # None /\ getById(tracked[p][1]) # NotFound
  THEN getById(tracked[p][1])
  ELSE FindCheckpoint(getRecent(RecentWindow, Some(parsed.cwd)), parsed)

\* periodicSaveHook in process p for the session whose log parses to
\* parsed: the checkpoint is saved under the id of existingMemory, or under
\* a generated id, and the process remembers the id.
PeriodicSave(p, parsed, id) ==
  /\ run.pc = "idle"
  /\ NewRowid <= MaxRowid
  /\ LET existing == ExistingMemory(p, parsed)
         checkpoint == createCheckpointMemory(parsed, id)
     IN /\ IF existing = NotFound THEN IsGenerated(id) ELSE id = existing.id
        /\ tracked' = [tracked EXCEPT ![p] = Some(id)]
        /\ rows' = ReplacedTable(checkpoint, now)
        /\ fts' = FtsInsert(fts, {NewRowid}, ReplacedTable(checkpoint, now))
        /\ last' = [op |-> "periodicSave", id |-> id, days |-> 0, ret |-> None,
                    s |-> Some(checkpoint)]
  /\ archRun' = None
  /\ UNCHANGED <<now, fs, config, run, stmt, cloud>>

\* The process of a hook ends; the next firing of the hook starts a
\* process with no currentSessionMemoryId.
ProcessExit(p) ==
  /\ run.pc = "idle"
  /\ tracked[p] # None
  /\ tracked' = [tracked EXCEPT ![p] = None]
  /\ last' = [op |-> "exit", id |-> NoId, days |-> 0, ret |-> None, s |-> None]
  /\ UNCHANGED <<rows, fts, now, archRun, fs, config, run, stmt, cloud>>

\* sessionEndHook for the session whose log parses to parsed:
\* store.save(createSessionMemory(...)), cloud sync being off.
SessionEnd(parsed, id) ==
  /\ run.pc = "idle"
  /\ NewRowid <= MaxRowid
  /\ IsGenerated(id)
  /\ LET sessionMemory == createSessionMemory(parsed, id)
     IN /\ rows' = ReplacedTable(sessionMemory, now)
        /\ fts' = FtsInsert(fts, {NewRowid}, ReplacedTable(sessionMemory, now))
        /\ last' = [op |-> "sessionEnd", id |-> id, days |-> 0, ret |-> None,
                    s |-> Some(sessionMemory)]
  /\ archRun' = None
  /\ UNCHANGED <<now, fs, config, run, stmt, cloud, tracked>>

\* The hooks of two sessions, the archive step of a cleanup and the sync
\* marking a record, all on one store.
NextHooks ==
  \/ Tick
  \/ \E p \in Procs, parsed \in ParsedSessions, id \in Ids : PeriodicSave(p, parsed, id)
  \/ \E p \in Procs : ProcessExit(p)
  \/ \E parsed \in ParsedSessions, id \in Ids : SessionEnd(parsed, id)
  \/ \E d \in DayArgs : ArchiveOld(d)
  \/ \E id \in Ids : MarkSynced(id)

SpecHooks == Init /\ [][NextHooks]_vars

----------------------------------------------------------------------------
(* Properties of the store *)

\* The words of the fields of a session that the index covers.
IndexedWords(s) ==
  s.summary \cup s.description
    \cup UNION {s.tasks[i].description : i \in DOMAIN s.tasks}
    \cup Range(s.filesCreated) \cup Range(s.filesModified)
    \cup s.lastUserMessage \cup s.lastAssistantMessage \cup Range(s.tags)

\* A full-text query for q matches the stored record of id.
StoredMatch(id, q) ==
  /\ getById(id) # NotFound
  /\ \E w \in IndexedWords(getById(id)) \cup {IdWord(id)} : IsPrefix(q, w)

\* C1: after save(s), for a first insert and an upsert alike, search(t)
\* returns the record of s.id for every word t of the indexed fields of s,
\* and does not return it for a word that no stored record holds any more.
C1_SearchReflectsSave ==
  last.op = "save" =>
    LET s == last.s[1]
    IN \A q \in Queries :
         /\ q \in IndexedWords(s) => s.id \in SearchIds(q)
         /\ (\A id \in Ids : ~StoredMatch(id, q)) => s.id \notin SearchIds(q)

\* A session as getById gives it back when only the timestamps of the
\* tasks change their representation.
UpToTimestamps(s) ==
  [s EXCEPT !.tasks = [i \in DOMAIN s.tasks |->
                         [s.tasks[i] EXCEPT !.createdAt = toISOString(@)]]]

\* A session as the store normalises it: an absent synced is false, an
\* epoch archivedAt or syncedAt and an empty logFileArchived are absent.
StorageNormalised(s) ==
  [UpToTimestamps(s) EXCEPT
     !.synced = IF @ = None THEN Some(FALSE) ELSE @,
     !.archivedAt = IF @ = Some(0) THEN None ELSE @,
     !.syncedAt = IF @ = Some(0) THEN None ELSE @,
     !.logFileArchived = IF @ = Some("") THEN None ELSE @]

\* C2: a save over a stored id replaces the record: the number of records
\* grows only for a new id, no id is ever held by two records, and getById
\* gives the fields of that save, as the store keeps them.
C2_UpsertReplaces ==
  [][\A s \in StoreInputs :
       (last'.op = "save" /\ last'.s = Some(s)) =>
          /\ Cardinality(DOMAIN rows') =
               Cardinality(DOMAIN rows) + (IF RowidsOf(s.id) = {} THEN 1 ELSE 0)
          /\ \A id \in Ids : Cardinality(RowidsOf(id)') <= 1
          /\ getById(s.id)' = StorageNormalised(s)]_vars

\* A save has replaced a stored record: the only record sits at a rowid
\* above the first.
C2_Witness ==
  /\ last.op = "save"
  /\ Cardinality(DOMAIN rows) = 1
  /\ \E r \in DOMAIN rows : r > 1 /\ rows[r].id = last.id

Observables ==
  [ byId |-> [id \in Ids |-> getById(id)],
    all |-> getAll(TRUE),
    active |-> getAll(FALSE),
    stats |-> getStats,
    found |-> [q \in Queries |-> search(q, DefaultLimit)] ]

\* C4: a save(s) that directly follows a save(s) of the same s changes
\* nothing a caller can see through getById, getAll, getStats and search.
C4_IdempotentUpsert ==
  [][(last.op = "save" /\ last'.op = "save" /\ last'.s = last.s)
       => Observables' = Observables]_vars

\* The same session was saved twice in a row: the index still holds the
\* entry of the first save under the rowid the second one left.
C4_Witness ==
  /\ last.op = "save"
  /\ \E r \in DOMAIN rows : \E old \in DOMAIN fts \ DOMAIN rows :
       /\ rows[r].id = last.id /\ old = r - 1
       /\ fts[old] = FtsTokens(rows[r])
       /\ Cardinality(DOMAIN rows) = 2

\* C5: delete of a stored id returns true and getById then gives not-found;
\* delete of an unknown id returns false and changes no record.
C5_DeleteCorrect ==
  [][\A del \in AnyId :
       (last'.op = "delete" /\ last'.id = del) =>
         IF getById(del) # NotFound
         THEN /\ last'.ret = Some(TRUE)
              /\ getById(del)' = NotFound
              /\ \A id \in Ids \ {del} : getById(id)' = getById(id)
         ELSE /\ last'.ret = Some(FALSE)
              /\ rows' = rows /\ fts' = fts]_vars

\* A stored record was deleted while another one stays.
C5_Witness ==
  /\ last.op = "delete" /\ last.ret = Some(TRUE)
  /\ getById(last.id) = NotFound
  /\ DOMAIN rows # {}

\* C6: when runCleanup returns, the size of the directory is at or below
\* maxStorageGb, or the store holds no record.
C6_QuotaAfterCleanup ==
  last.op = "runCleanup" => (calculateStorageUsed <= MaxBytes \/ DOMAIN rows = {})

\* C7: archiveOld leaves an archived record archived, with the same
\* archivedAt.
C7_ArchiveMonotone ==
  [][last'.op = "archiveOld" =>
       \A id \in Ids :
         (getById(id) # NotFound /\ getById(id).archived) =>
           /\ getById(id)' # NotFound
           /\ getById(id)'.archived
           /\ getById(id)'.archivedAt = getById(id).archivedAt]_vars

\* archiveOld ran over a record that was archived earlier and is older than
\* the cutoff.
C7_Witness ==
  /\ last.op = "archiveOld"
  /\ \E r \in DOMAIN rows :
       /\ rows[r].archived = 1 /\ rows[r].archived_at # Some(now)
       /\ rows[r].started_at < now - last.days * DayMs

\* C8 as stated: archiveOld(d) called again with the same d, no save in
\* between, returns 0 and changes no record.
C8_SameDaysNoChange ==
  [][(last'.op = "archiveOld" /\ archRun # None /\ archRun[1].days = last'.days)
       => (last'.ret = Some(0) /\ rows' = rows)]_vars

\* C8 as amended: archiveOld(d) called again with the same d at the same
\* clock reading (the same cutoff), no save in between, returns 0 and
\* changes no record.
C8_SameCutoffNoChange ==
  [][(/\ last'.op = "archiveOld" /\ archRun # None
      /\ archRun[1].days = last'.days
      /\ archRun[1].cutoff = now - last'.days * DayMs)
       => (last'.ret = Some(0) /\ rows' = rows)]_vars

\* archiveOld was repeated with the same cutoff after a call that archived
\* a record.
C8_Witness ==
  /\ last.op = "archiveOld" /\ archRun # None /\ archRun[1].repeat
  /\ now > DayMs
  /\ \E r \in DOMAIN rows : rows[r].archived_at = Some(now)

\* The records archiveOld(days) is to change: stored, not archived, started
\* before now - days.
Archivable(id, days) ==
  /\ getById(id) # NotFound
  /\ ~getById(id).archived
  /\ getById(id).startedAt < now - days * DayMs

\* C9: archiveOld(days) sets archived and archivedAt = now on exactly the
\* non-archived records started before now - days, returns their number
\* and leaves every other record and field as it was.
C9_ArchiveOldExact ==
  [][last'.op = "archiveOld" =>
       /\ \A id \in Ids :
            getById(id)' = IF Archivable(id, last'.days)
                           THEN [getById(id) EXCEPT !.archived = TRUE,
                                                    !.archivedAt = Some(now)]
                           ELSE getById(id)
       /\ last'.ret = Some(Cardinality({id \in Ids : Archivable(id, last'.days)}))]_vars

\* archiveOld archived one record and left a newer, active one alone.
C9_Witness ==
  /\ last.op = "archiveOld" /\ last.ret = Some(1)
  /\ \E r1, r2 \in DOMAIN rows :
       /\ rows[r1].archived = 1 /\ rows[r1].archived_at = Some(now)
       /\ rows[r2].archived = 0
       /\ rows[r2].started_at >= now - last.days * DayMs

\* The records deleteOld(days) is to remove.
Expired(id, days) ==
  /\ getById(id) # NotFound
  /\ getById(id).startedAt < now - days * DayMs

\* C10: deleteOld(days) removes exactly the records started before
\* now - days, archived or not, returns their number and leaves every newer
\* record as it was.
C10_DeleteOldExact ==
  [][last'.op = "deleteOld" =>
       /\ \A id \in Ids :
            getById(id)' = IF Expired(id, last'.days) THEN NotFound ELSE getById(id)
       /\ last'.ret = Some(Cardinality({id \in Ids : Expired(id, last'.days)}))]_vars

\* deleteOld removed a record that was not archived and kept a newer one.
C10_Witness ==
  /\ last.op = "deleteOld" /\ last.ret = Some(1)
  /\ Cardinality(DOMAIN rows) = 1
  /\ \A r \in DOMAIN rows : rows[r].archived = 0 /\ r > 1

\* C11: in every reachable state every stored record with archived = true
\* has archivedAt set.
C11_ArchivedHasDate ==
  \A id \in Ids :
    (getById(id) # NotFound /\ getById(id).archived) => getById(id).archivedAt # None

\* C12: in every reachable state the logFileArchived of a stored record
\* names a file that exists in the archive directory.
C12_ArchivePathExists ==
  \A id \in Ids :
    (getById(id) # NotFound /\ getById(id).logFileArchived # None)
      => getById(id).logFileArchived[1] \in fs.archive

\* C13: the full-text index holds exactly one entry per stored record,
\* built from the current fields of the record, and none for a deleted
\* record; search returns stored records only, as they are now, each once.
C13_IndexMirrorsStore ==
  /\ \A r \in DOMAIN fts :
       fts[r] = IF r \in DOMAIN rows THEN FtsTokens(rows[r]) ELSE {}
  /\ \A q \in Queries :
       LET found == search(q, DefaultLimit)
       IN /\ \A i \in DOMAIN found : found[i].session = getById(found[i].session.id)
          /\ \A i, j \in DOMAIN found : found[i].session.id = found[j].session.id => i = j

\* The report of a run that did nothing.
ZeroReport ==
  [sessionsArchived |-> 0, sessionsDeleted |-> 0, bytesFreed |-> 0, logFilesBackedUp |-> 0]

\* C14 as stated: a run of runCleanup started right after another one
\* returned reports zero everywhere and changes neither the table nor the
\* archive directory.
C14_SecondRunNoChange ==
  [][(run.pc = "done" /\ run.again /\ last'.op = "runCleanup")
       => /\ last'.ret = Some(ZeroReport)
          /\ rows = run.before.rows
          /\ fs.archive = run.before.archive]_vars

\* The rows a run started on whose compression is still to do: archived,
\* no archive path, the raw log on disk.
PendingBefore ==
  {r \in DOMAIN run.before.rows :
     /\ run.before.rows[r].archived = 1
     /\ run.before.rows[r].log_file_archived = None
     /\ run.before.rows[r].log_file \in fs.logs}

\* C14 as amended: a run of runCleanup started right after another one
\* returned archives nothing, deletes nothing and frees nothing; it only
\* retries the compressions that failed in the run before: it changes the
\* archive path of the records whose compression now succeeds, counts them
\* in logFilesBackedUp and adds no file but theirs to the archive
\* directory.  With no compression left to retry it reports zero everywhere
\* and changes nothing.
C14_SecondRunOnlyRetries ==
  [][(run.pc = "done" /\ run.again /\ last'.op = "runCleanup")
       => LET before == run.before.rows
              retried == {r \in DOMAIN before : r \notin DOMAIN rows \/ rows[r] # before[r]}
          IN /\ last'.ret[1].sessionsArchived = 0
             /\ last'.ret[1].sessionsDeleted = 0
             /\ last'.ret[1].bytesFreed = 0
             /\ DOMAIN rows = DOMAIN before
             /\ retried \subseteq PendingBefore
             /\ \A r \in retried :
                  rows[r] = [before[r] EXCEPT
                               !.log_file_archived = Some(ArchivePathOf(before[r].id)),
                               !.updated_at = now]
             /\ last'.ret[1].logFilesBackedUp = Cardinality(retried)
             /\ run.before.archive \subseteq fs.archive
             /\ fs.archive \ run.before.archive
                  \subseteq {ArchivePathOf(before[r].id) : r \in PendingBefore}
             /\ PendingBefore = {} =>
                  /\ last'.ret = Some(ZeroReport)
                  /\ rows = before
                  /\ fs.archive = run.before.archive]_vars

\* A second run is about to return a zero report on a store in which an
\* earlier run archived a record and compressed its log.
C14_Witness ==
  /\ run.pc = "done" /\ run.again
  /\ run.report = ZeroReport
  /\ \E r \in DOMAIN rows :
       /\ rows[r].archived = 1 /\ rows[r].archived_at = Some(now)
       /\ rows[r].log_file_archived = Some(ArchivePathOf(rows[r].id))
       /\ rows[r].log_file_archived[1] \in fs.archive

\* C15: the report of a run tells the work of that run.  sessionsArchived
\* is the number of records step 1 turned from active to archived,
\* logFilesBackedUp the number of records that got an archive path in step
\* 2 (a skipped or failed compression is not counted), sessionsDeleted the
\* number of records gone from the table when the run returns; the first
\* two counts are final once their step is over.
C15_ReportIsWorkDone ==
  [][/\ (run.pc = "idle" /\ run'.pc = "compress") =>
          run'.report.sessionsArchived =
            Cardinality({r \in DOMAIN rows : rows[r].archived = 0 /\ rows'[r].archived = 1})
     /\ (run.pc = "compress" /\ run'.pc \in {"trim", "done"}) =>
          /\ run'.report.logFilesBackedUp =
               Cardinality({r \in DOMAIN rows :
                              /\ run.before.rows[r].log_file_archived = None
                              /\ rows[r].log_file_archived # None})
          /\ run'.report.sessionsArchived = run.report.sessionsArchived
     /\ (run.pc = "trim") =>
          /\ run'.report.logFilesBackedUp = run.report.logFilesBackedUp
          /\ run'.report.sessionsArchived = run.report.sessionsArchived
     /\ (run.pc = "done" /\ last'.op = "runCleanup") =>
          /\ last'.ret[1].sessionsArchived = run.report.sessionsArchived
          /\ last'.ret[1].logFilesBackedUp = run.report.logFilesBackedUp
          /\ last'.ret[1].sessionsDeleted =
               Cardinality(DOMAIN run.before.rows \ DOMAIN rows)]_vars

\* A run is about to return after it archived two records, compressed the
\* log of one, skipped the other and deleted one record.
C15_Witness ==
  /\ run.pc = "done"
  /\ run.report.sessionsArchived = 2
  /\ run.report.logFilesBackedUp = 1
  /\ run.report.sessionsDeleted = 1
  /\ \E r \in DOMAIN rows : rows[r].archived = 1 /\ rows[r].log_file_archived = None


\* C16: save calls of different processes that overlap are serialisable. A
\* save that returns leaves the store as the same save run alone on the
\* committed tables leaves it: the record of its id, row and index entry, is
\* the written one in full, and the record of every other id is untouched.
C16_OverlappingSavesSerialise ==
  [][\A p \in Procs, s \in TextInputs :
       (stmt[p].pc = "triggered" /\ stmt[p].s = Some(s) /\ stmt'[p].pc = "idle") =>
         /\ rows' = ReplacedTable(s, stmt[p].t)
         /\ fts' = FtsInsert(fts, {NewRowid}, ReplacedTable(s, stmt[p].t))
         /\ getById(s.id)' = StorageNormalised(s)
         /\ \A r \in DOMAIN rows' : rows'[r].id = s.id => fts'[r] = FtsTokens(BindRow(s, stmt[p].t))
         /\ \A id \in Ids \ {s.id} : getById(id)' = getById(id)]_vars

\* A save is about to commit while the save of another process, called
\* before the first one took the lock and holding another record for the same
\* id, waits; and the same with a record for another id.
C16_Witness ==
  \E p \in Procs, q \in Procs :
    /\ p # q
    /\ stmt[p].pc = "triggered"
    /\ stmt[q].pc = "bound"
    /\ stmt[p].s # stmt[q].s
    /\ stmt[p].s[1].id = stmt[q].s[1].id
    /\ RowidsOf(stmt[p].s[1].id) # {}
    /\ \E id \in Ids \ {stmt[p].s[1].id} : RowidsOf(id) # {}

\* The ids getUnsyncedSessions returns.
UnsyncedIds == {getUnsyncedSessions[i].id : i \in DOMAIN getUnsyncedSessions}

\* C17: a session is marked synced only after its upload succeeded. A row
\* goes from synced = 0 to synced = 1 only in the step of sync or of the
\* session-end hook in which the upload of its id succeeded, and a step in
\* which the upload failed leaves the table alone, so that every session
\* getUnsyncedSessions returned before it is returned after it.
C17_MarkedOnlyAfterUpload ==
  [][/\ \A r \in DOMAIN rows \cap DOMAIN rows' :
          (rows[r].synced = 0 /\ rows'[r].synced = 1) =>
            /\ last'.op \in {"upload", "hookUpload"}
            /\ last'.ret = Some(TRUE)
            /\ last'.id = rows[r].id
            /\ cloud'.bucket[getSessionKey(deviceId, rows[r].id)] # None
     /\ ( /\ \/ cloud.sync.pc = "upload" /\ cloud.sync.queue # <<>> /\ cloud'.sync # cloud.sync
             \/ cloud.hook # None /\ cloud'.hook = None
          /\ last'.ret = Some(FALSE) ) =>
            /\ rows' = rows
            /\ UnsyncedIds \subseteq UnsyncedIds']_vars

\* An upload of sync has failed for a session that is still unsynced, and
\* the report counts no upload.
C17_Witness ==
  /\ last.op = "upload"
  /\ last.ret = Some(FALSE)
  /\ last.id \in UnsyncedIds
  /\ cloud.sync.report.uploaded = 0

\* The entries listRemoteSessions can return.
Infos == {[deviceId |-> k[2], sessionId |-> k[3], key |-> k] : k \in Keys}

\* C18: on the inbound side sync writes to the table only to save a remote
\* object of another device whose id getById does not find; the record is
\* stored with synced = true, getUnsyncedSessions does not return it, and
\* the record of every other id is untouched.
C18_InboundSavesOnlyNew ==
  [][\A info \in Infos :
       ( /\ cloud.sync.pc \in {"download", "downloading"}
         /\ cloud'.sync # cloud.sync
         /\ cloud.sync.remote # <<>>
         /\ Head(cloud.sync.remote) = info
         /\ rows' # rows ) =>
           /\ info.deviceId # deviceId
           /\ getById(info.sessionId) = NotFound
           /\ getById(info.sessionId)' # NotFound
           /\ getById(info.sessionId)'.synced = Some(TRUE)
           /\ info.sessionId \notin UnsyncedIds'
           /\ \A id \in Ids \ {info.sessionId} : getById(id)' = getById(id)]_vars

\* A session of the other device has been downloaded next to a local one.
C18_Witness ==
  /\ last.op = "download"
  /\ last.ret = Some(TRUE)
  /\ getById("y") # NotFound
  /\ getById("y").synced = Some(TRUE)
  /\ getById("x") # NotFound
  /\ cloud.sync.report.downloaded = 1

\* C19: when sync meets an object of another device whose id exists
\* locally, here with a summary other than the local one, the conflict is
\* counted in SyncReport.conflicts.
C19_ConflictCounted ==
  [][\A info \in Infos :
       ( /\ cloud.sync.pc = "download"
         /\ cloud.sync.remote # <<>>
         /\ Head(cloud.sync.remote) = info
         /\ info.deviceId # deviceId
         /\ getById(info.sessionId) # NotFound
         /\ cloud.bucket[info.key] # None
         /\ decryptJson(cloud.bucket[info.key][1]).summary # getById(info.sessionId).summary
         /\ cloud'.sync # cloud.sync ) =>
           cloud'.sync.report.conflicts = cloud.sync.report.conflicts + 1]_vars

\* The rows of a project.
RowsOfProject(path) == {r \in DOMAIN rows : rows[r].project_path = path}

\* C20: getLastForProject(path) returns a stored record, archived or not,
\* whose projectPath is path and whose startedAt no record of that path
\* exceeds, and the not-found value when no record has that path.
C20_LastOfProject ==
  \A path \in ProjectArgs :
    IF RowsOfProject(path) = {}
    THEN getLastForProject(path) = NotFound
    ELSE /\ \E r \in RowsOfProject(path) : getLastForProject(path) = rowToSession(rows[r])
         /\ getLastForProject(path).projectPath = path
         /\ \A r \in RowsOfProject(path) : rows[r].started_at <= getLastForProject(path).startedAt

\* The newest session of /p is archived, an older active one exists in /p.
C20_Witness ==
  /\ getLastForProject("/p") # NotFound
  /\ getLastForProject("/p").archived
  /\ \E r \in RowsOfProject("/p") :
       rows[r].archived = 0 /\ rows[r].started_at < getLastForProject("/p").startedAt

\* The arguments of getRecent: the limits, that of `list -l -1` among them,
\* and the project paths, left out, empty or given.
LimitArgs == {-1, 0, 1, 2}
PathArgs == {None, Some("")} \cup {Some(path) : path \in ProjectArgs}

\* The rows getRecent is to choose from: not archived, of the project given.
RecentRows(projectPath) ==
  {r \in DOMAIN rows :
     rows[r].archived = 0 /\ (projectPath # None => rows[r].project_path = projectPath[1])}

\* The result holds non-archived records of the project only, newest first,
\* and leaves out no record of RecentRows newer than one it holds.
RecentOf(res, projectPath) ==
  /\ \A i \in DOMAIN res : \E r \in RecentRows(projectPath) : res[i] = rowToSession(rows[r])
  /\ \A i \in DOMAIN res, j \in DOMAIN res : i < j => res[i].startedAt >= res[j].startedAt
  /\ \A i \in DOMAIN res, j \in DOMAIN res : i # j => res[i].id # res[j].id
  /\ \A r \in RecentRows(projectPath) :
       (\E i \in DOMAIN res : res[i].startedAt < rows[r].started_at) =>
          \E j \in DOMAIN res : res[j] = rowToSession(rows[r])

\* C21: getRecent(limit, projectPath?) returns only non-archived records,
\* newest first, at most limit of them, of the given project only, and
\* leaves out no matching record newer than a returned one.  (No record
\* is what "at most limit" allows for a limit below zero.)
C21_RecentExact ==
  \A limit \in LimitArgs, projectPath \in PathArgs :
    /\ RecentOf(getRecent(limit, projectPath), projectPath)
    /\ Len(getRecent(limit, projectPath)) <= (IF limit < 0 THEN 0 ELSE limit)

\* C21 as the code has it: the above for a limit of zero or more and a
\* project path that is left out or not empty, and then the result holds
\* limit records or, if there are fewer, all of them; a negative limit
\* returns all the records, the empty path is no filter.
C21_RecentExactForCounts ==
  \A limit \in LimitArgs, projectPath \in PathArgs :
    LET asked == IF projectPath = Some("") THEN None ELSE projectPath
        count == Cardinality(RecentRows(asked))
    IN /\ RecentOf(getRecent(limit, projectPath), asked)
       /\ Len(getRecent(limit, projectPath)) =
            IF limit < 0 \/ count < limit THEN count ELSE limit

\* Two active sessions of two projects: a limit of 1 returns the newer one
\* only, the path of the older one returns the older one only.
C21_Witness ==
  /\ Len(getRecent(2, None)) = 2
  /\ Len(getRecent(1, None)) = 1
  /\ getRecent(1, None)[1].startedAt > getRecent(2, None)[2].startedAt
  /\ getRecent(2, Some("/p")) = <<getRecent(2, None)[2]>>

\* The result of getUnsyncedSessions holds the stored records with
\* synced = false, each once and no other, oldest first.
UnsyncedExact ==
  LET res == getUnsyncedSessions
      unsynced == {id \in Ids : getById(id) # NotFound /\ getById(id).synced = Some(FALSE)}
  IN /\ {res[i] : i \in DOMAIN res} = {getById(id) : id \in unsynced}
     /\ Len(res) = Cardinality(unsynced)
     /\ \A i \in DOMAIN res, j \in DOMAIN res : i < j => res[i].startedAt <= res[j].startedAt

\* C22: getUnsyncedSessions returns exactly the stored records with
\* synced = false, ordered by startedAt ascending, and sync uploads them
\* oldest first: no session still waiting in a run is older than the one
\* the run has just uploaded or tried to upload.
C22_UnsyncedOldestFirst ==
  /\ UnsyncedExact
  /\ (cloud.sync.pc = "upload" /\ last.op = "upload") =>
        \A j \in DOMAIN cloud.sync.queue : last.s[1].startedAt <= cloud.sync.queue[j].startedAt
  /\ (cloud.sync.pc = "upload" /\ last.op = "sync:begin") =>
        cloud.sync.queue = getUnsyncedSessions

\* sync has uploaded the older session, which was saved last, and the newer
\* one is still waiting.
C22_Witness ==
  /\ cloud.sync.pc = "upload"
  /\ last.op = "upload"
  /\ last.id = "y"
  /\ Len(cloud.sync.queue) = 1
  /\ cloud.sync.queue[1].id = "x"
  /\ RowidsOf("x") = {1}
  /\ RowidsOf("y") = {2}
  /\ getById("x").startedAt > getById("y").startedAt

\* The startedAt of all the stored records.
StartedOfAll == {rows[r].started_at : r \in DOMAIN rows}

\* The counts of getStats are those of the stored records.
StatsCounts ==
  /\ getStats.totalSessions = getStats.activeSessions + getStats.archivedSessions
  /\ getStats.totalSessions = Cardinality({id \in Ids : getById(id) # NotFound})
  /\ getStats.activeSessions = Cardinality({id \in Ids : getById(id) # NotFound /\ ~getById(id).archived})
  /\ getStats.archivedSessions = Cardinality({id \in Ids : getById(id) # NotFound /\ getById(id).archived})

\* C23: in every reachable state getStats reports totalSessions =
\* activeSessions + archivedSessions = the number of stored records, and
\* oldestSession and newestSession are the minimum and the maximum startedAt
\* over all records, archived included.
C23_StatsOfAllRecords ==
  /\ StatsCounts
  /\ StartedOfAll # {} => /\ getStats.oldestSession = Some(SetMin(StartedOfAll))
                          /\ getStats.newestSession = Some(SetMax(StartedOfAll))

\* C23 as the code has it: the same, except that a minimum or maximum
\* startedAt of 0 ms, the epoch, is reported as no date, as for an empty
\* store.
C23_StatsOfAllRecordsButEpoch ==
  /\ StatsCounts
  /\ getStats.oldestSession =
       IF StartedOfAll = {} \/ SetMin(StartedOfAll) = 0 THEN None ELSE Some(SetMin(StartedOfAll))
  /\ getStats.newestSession =
       IF StartedOfAll = {} \/ SetMax(StartedOfAll) = 0 THEN None ELSE Some(SetMax(StartedOfAll))

\* An archived record is the newest one, an active one is older.
C23_Witness ==
  /\ getStats.archivedSessions = 1
  /\ getStats.activeSessions = 1
  /\ getStats.newestSession = Some(DayMs)
  /\ \E r \in DOMAIN rows : rows[r].archived = 1 /\ rows[r].started_at = DayMs
  /\ \E r \in DOMAIN rows : rows[r].archived = 0 /\ rows[r].started_at = 0

\* C24: getStats().storageUsedBytes is the size of the file the store was
\* opened on, also on a path of its own, and it is the usage the quota trim
\* measures against the ceiling.
C24_StatsSizeIsStoreFile ==
  /\ getStats.storageUsedBytes = fs.dbSize
  /\ run.pc = "trim" => run.currentSize = getStats.storageUsedBytes

RECURSIVE DecimalValue(_)
DecimalValue(ds) ==
  IF ds = <<>> THEN 0
  ELSE Digits[Head(ds)] * <<1, 10, 100, 1000>>[Len(ds)] + DecimalValue(Tail(ds))

\* The string is one or more digits followed by the unit.
IsCountOf(retention, unit) ==
  /\ Len(retention) >= 2
  /\ retention[Len(retention)] = unit
  /\ \A i \in 1..(Len(retention) - 1) : retention[i] \in DOMAIN Digits

\* C26: parseDays maps "<n>d" to n, "<n>m" to 30*n, "<n>y" to 365*n and
\* "forever" to the unbounded sentinel, and every other string to 30.
C26_ParseDays ==
  last.op = "parseDays" =>
    LET retention == config.fullSessions
        n == DecimalValue(SubSeq(retention, 1, Len(retention) - 1))
    IN last.ret[1] =
         CASE retention = Forever -> Infinity
           [] IsCountOf(retention, "d") -> Some(n)
           [] IsCountOf(retention, "m") -> Some(30 * n)
           [] IsCountOf(retention, "y") -> Some(365 * n)
           [] OTHER -> Some(30)

\* "12m" has been parsed to 360 days.
C26_Witness ==
  /\ last.op = "parseDays"
  /\ config.fullSessions = <<"1", "2", "m">>
  /\ last.ret = Some(Some(360))

\* C27: operations on an id that is not stored change nothing: getById
\* returns the not-found value, and updateArchivePath and markSynced leave
\* the table and the index as they are and create no record.
C27_UnknownIdNoChange ==
  [][\A id \in AnyId :
       ( /\ RowidsOf(id) = {}
         /\ last'.op \in {"markSynced", "updateArchivePath"}
         /\ last'.id = id ) =>
           /\ getById(id) = NotFound
           /\ rows' = rows
           /\ fts' = fts
           /\ getAll(TRUE)' = getAll(TRUE)]_vars

\* markSynced or updateArchivePath has run on an id that is not stored
\* while another record is.
C27_Witness ==
  /\ last.op \in {"markSynced", "updateArchivePath"}
  /\ last.id \in Ids
  /\ getById(last.id) = NotFound
  /\ \E id \in Ids : getById(id) # NotFound /\ getById(id).synced = Some(FALSE)


\* A text column of the row that simplSearch reads contains q.
Contains(row, q) ==
  \E w \in row.summary \cup row.description \cup row.last_user_message : IsSubstr(q, w)

\* C28: search(query, limit) answers a query that the full-text index
\* cannot parse with the records whose summary, description or
\* lastUserMessage contains the query as a substring, each with score 1,
\* and a query that no record contains returns the empty list.
C28_ParseErrorFallsBack ==
  \A q \in SearchArgs :
    LET found == search(q, DefaultLimit)
    IN /\ ~FtsParses(escapedQuery(q)) =>
            /\ {found[i].session.id : i \in DOMAIN found}
                 = {rows[r].id : r \in {k \in DOMAIN rows : Contains(rows[k], q)}}
            /\ \A i \in DOMAIN found : found[i].score = 1
       /\ (\A r \in DOMAIN rows : ~Contains(rows[r], q)) => found = <<>>

\* The rows of a table that hold the record of id.
RowsOfId(table, id) == {r \in DOMAIN table : table[r].id = id}

\* The lifecycle stage of the record of id in a table: 0 active, 1
\* archived, 2 compressed (archived with an archive path), 3 not stored.
StageIn(table, id) ==
  IF RowsOfId(table, id) = {} THEN 3
  ELSE LET row == table[CHOOSE r \in RowsOfId(table, id) : TRUE]
       IN IF row.archived = 0 THEN 0
          ELSE IF StringOrUndefined(row.log_file_archived) = None THEN 1 ELSE 2

\* C29: over the steps of runCleanup, with no other writer, the stage of
\* every record only moves forward along active, archived, compressed,
\* deleted: no step clears archived, no step clears the archive path of a
\* record it keeps, no step stores a record that is not stored.
C29_LifecycleForward ==
  [][ (run.pc # "idle" \/ run.pc' # "idle") =>
        \A id \in Ids :
          /\ StageIn(rows', id) >= StageIn(rows, id)
          /\ RowsOfId(rows, id) = {} => RowsOfId(rows', id) = {}
          /\ \A r \in RowsOfId(rows, id) \cap RowsOfId(rows', id) :
               /\ rows[r].archived = 1 => rows'[r].archived = 1
               /\ rows[r].log_file_archived # None
                    => rows'[r].log_file_archived = rows[r].log_file_archived ]_vars

\* A run is about to return that took a record from active through
\* archived and compressed to deleted and left another one compressed.
C29_Witness ==
  /\ run.pc = "done"
  /\ \E id \in Ids : StageIn(run.before.rows, id) = 0 /\ StageIn(rows, id) = 3
                       /\ ArchivePathOf(id) \in fs.archive
  /\ \E id \in Ids : StageIn(run.before.rows, id) = 0 /\ StageIn(rows, id) = 2

\* C30: the quota trim evicts oldest first and stops at the ceiling.  A
\* step of the trim deletes a record only while the usage it has measured
\* last, which is the usage of the directory, is above the ceiling, and the
\* record it deletes is no newer than any record left: the deleted
\* records are a prefix of the records in ascending order of startedAt.
C30_TrimOldestFirst ==
  [][ (run.pc = "trim" /\ DOMAIN rows' # DOMAIN rows) =>
        /\ run.currentSize = calculateStorageUsed
        /\ run.currentSize > MaxBytes
        /\ \A r \in DOMAIN rows \ DOMAIN rows' : \A k \in DOMAIN rows' :
             rows[r].started_at <= rows'[k].started_at
        /\ DOMAIN rows' \subseteq DOMAIN rows ]_vars

\* The trim, alone to delete in this run, has deleted the oldest record
\* and a newer one is still stored.
C30_Witness ==
  /\ run.pc = "trim"
  /\ parseDays(config.archives) = Infinity
  /\ run.result.deleted = 1
  /\ \E r \in DOMAIN run.before.rows :
       /\ RowsOfId(rows, run.before.rows[r].id) = {}
       /\ \E k \in DOMAIN rows : rows[k].started_at > run.before.rows[r].started_at

\* The compress phase of the run is over and step 3 has not begun.
CompressOver == run.pc = "compress" /\ run.queue = <<>>

\* The archived rows that had no archive path when the run began and whose
\* raw log is on disk.
ToCompress ==
  {r \in DOMAIN rows :
     /\ rows[r].archived = 1
     /\ run.before.rows[r].log_file_archived = None
     /\ rows[r].log_file # "" /\ rows[r].log_file \in fs.logs}

\* The row has the archive path of its id and the file is there.
Compressed(r) ==
  /\ rows[r].log_file_archived = Some(ArchivePathOf(rows[r].id))
  /\ ArchivePathOf(rows[r].id) \in fs.archive

\* C31, as stated: after the compress phase every archived record that had
\* no logFileArchived and whose logFile exists has its compressed file in
\* the archive directory and a logFileArchived that names it, and a record
\* that is not archived has the logFileArchived it had before the run.
C31_AllCompressed ==
  run.pc # "idle" =>
    \A r \in DOMAIN rows :
      /\ rows[r].archived = 0
           => rows[r].log_file_archived = run.before.rows[r].log_file_archived
      /\ (CompressOver /\ r \in ToCompress) => Compressed(r)

\* C31, amended: after the compress phase every such record either has
\* its compressed file and a logFileArchived that names it, or, its
\* compression having failed, still has no logFileArchived; a record that
\* is not archived has the logFileArchived it had before the run.
C31_CompressedUnlessFailed ==
  run.pc # "idle" =>
    \A r \in DOMAIN rows :
      /\ rows[r].archived = 0
           => rows[r].log_file_archived = run.before.rows[r].log_file_archived
      /\ (CompressOver /\ r \in ToCompress)
           => Compressed(r) \/ rows[r].log_file_archived = None

\* The compress phase is over: one record got its archive in this run and
\* the compression of another failed.
C31_Witness ==
  /\ CompressOver
  /\ \E r \in ToCompress : Compressed(r)
  /\ run.report.logFilesBackedUp = 1
  /\ \E r \in ToCompress : rows[r].log_file_archived = None

\* C32: a turn of the compress loop on an archived record whose logFile is
\* missing, or whose compression fails, is a skip: the table is left as it
\* is, so the record stays stored with no logFileArchived, the count
\* logFilesBackedUp stays, and the run goes on with the rest of the
\* snapshot.  A missing logFile leaves the archive directory alone too.
C32_FailureIsSkipped ==
  [][ (run.pc = "compress" /\ run.queue # <<>>) =>
        \A r \in RowsOfId(rows, Head(run.queue).id) :
          (/\ Head(run.queue).logFileArchived = None
           /\ \/ Head(run.queue).logFile \notin fs.logs
              \/ rows'[r].log_file_archived = None)
            => /\ rows' = rows
               /\ Head(run.queue).logFile \notin fs.logs => fs' = fs
               /\ run'.report = run.report
               /\ run'.pc = "compress"
               /\ run'.queue = Tail(run.queue) ]_vars

\* A run is about to return that deleted nothing and skipped two archived
\* records, one with its log missing and one whose compression failed:
\* both are stored without an archive path and none is counted.
C32_Witness ==
  /\ run.pc = "done"
  /\ run.report.logFilesBackedUp = 0 /\ run.report.sessionsDeleted = 0
  /\ \E r \in DOMAIN rows :
       /\ rows[r].archived = 1 /\ rows[r].log_file_archived = None
       /\ rows[r].log_file \notin fs.logs
  /\ \E r \in DOMAIN rows :
       /\ rows[r].archived = 1 /\ rows[r].log_file_archived = None
       /\ rows[r].log_file \in fs.logs

\* The rows a step keeps have the archived flag they had.
FlagsKept == \A r \in DOMAIN rows \cap DOMAIN rows' : rows'[r].archived = rows[r].archived

\* C33: a period of 'forever' switches its phase off.  With fullSessions =
\* forever step 1 archives no record; with archives = forever step 3
\* deletes no record by age; with both and the usage within the ceiling no
\* step of a run deletes a record or changes an archived flag.
C33_ForeverSwitchesOff ==
  [][ /\ (config.fullSessions = Forever /\ run.pc = "idle" /\ run'.pc = "compress")
          => /\ FlagsKept /\ DOMAIN rows' = DOMAIN rows
             /\ run'.report.sessionsArchived = 0
      /\ (config.archives = Forever /\ run.pc = "compress" /\ run.queue = <<>>)
          => /\ DOMAIN rows' = DOMAIN rows
             /\ run'.report.sessionsDeleted = 0
      /\ (/\ config.fullSessions = Forever
          /\ config.archives = Forever
          /\ calculateStorageUsed <= MaxBytes
          /\ run.pc # "idle" \/ run'.pc # "idle")
          => FlagsKept /\ DOMAIN rows' = DOMAIN rows ]_vars

\* A run under fullSessions = forever and archives = forever is about to
\* return on a store within the ceiling that holds a record older than the
\* clock reading: the record is there and active.
C33_Witness ==
  /\ run.pc = "done"
  /\ config.fullSessions = Forever /\ config.archives = Forever
  /\ fs.dbSize > 0 /\ calculateStorageUsed <= MaxBytes
  /\ \E r \in DOMAIN rows : rows[r].started_at < now /\ rows[r].archived = 0
  /\ DOMAIN rows = DOMAIN run.before.rows

\* The rows that hold a checkpoint of the session.
CheckpointRows(parsed) ==
  {r \in DOMAIN rows :
     /\ rows[r].claude_session_id = parsed.claudeSessionId
     /\ TagInProgress \in Range(rows[r].tags_json.json)}

\* C34: however often the periodic-save hook fires for a session, and in
\* whichever process, its checkpoints go to one record id: the store never
\* holds two checkpoint records of one session.
C34_OneCheckpointPerSession ==
  \A parsed \in ParsedSessions : Cardinality(CheckpointRows(parsed)) <= 1

\* C35: with finite periods, fullSessions <= archives, and the usage
\* within the ceiling, every record a step of runCleanup deletes is
\* archived when it is deleted, whatever the clock does during the run.
C35_DeletesOnlyArchived ==
  [][ (/\ run.pc # "idle"
       /\ parseDays(config.fullSessions) # Infinity /\ parseDays(config.archives) # Infinity
       /\ parseDays(config.fullSessions)[1] <= parseDays(config.archives)[1]
       /\ calculateStorageUsed <= MaxBytes)
        => \A r \in DOMAIN rows \ DOMAIN rows' : rows[r].archived = 1 ]_vars

\* C36: when a run of runCleanup has returned, every file of the archive
\* directory is the compressed log of a stored record whose
\* logFileArchived names it: a deleted record leaves no file behind.
C36_NoOrphanArchive ==
  last.op = "runCleanup" =>
    \A path \in fs.archive :
      \E r \in DOMAIN rows : rows[r].log_file_archived = Some(path)

\* C37: the id the periodic-save hook saves a checkpoint under is a
\* generated one, or the id of a stored record of the same Claude session:
\* the hook never replaces the record of another session.
C37_SavesUnderOwnId ==
  [][ (last'.op = "periodicSave" /\ rows' # rows) =>
        \A id \in Ids :
          last'.id = id =>
            \/ getById(id) = NotFound
            \/ getById(id).claudeSessionId = last'.s[1].claudeSessionId ]_vars

\* The rows that hold a record of the Claude session.
SessionRows(claudeSessionId) ==
  {r \in DOMAIN rows : rows[r].claude_session_id = claudeSessionId}

\* C38: when the session-end hook has saved a session, the store holds
\* exactly one record of that session: the final record has taken the
\* place of the checkpoint the periodic-save hook wrote.
C38_FinalReplacesCheckpoint ==
  last.op = "sessionEnd" =>
    Cardinality(SessionRows(last.s[1].claudeSessionId)) = 1

\* The ids of the records of a table that are marked synced.
SyncedIdsIn(table) == {table[r].id : r \in {k \in DOMAIN table : table[k].synced = 1}}

\* C39: a record that is marked synced stays synced under every later
\* operation of the store, a save of its id by the checkpoint writer
\* included, for as long as it is stored.
C39_SyncedStays ==
  [][ \A id \in SyncedIdsIn(rows) :
        RowsOfId(rows', id) # {} => id \in SyncedIdsIn(rows') ]_vars

\* C40: every count of a CleanupReport is at least 0, while the run builds
\* the report and when it returns it, whatever another process saves in
\* the meantime.
C40_ReportNonNegative ==
  /\ run.report.sessionsArchived >= 0 /\ run.report.sessionsDeleted >= 0
  /\ run.report.logFilesBackedUp >= 0 /\ run.report.bytesFreed >= 0
  /\ last.op = "runCleanup" =>
       /\ last.ret[1].sessionsArchived >= 0 /\ last.ret[1].sessionsDeleted >= 0
       /\ last.ret[1].logFilesBackedUp >= 0 /\ last.ret[1].bytesFreed >= 0

====
